---- MODULE Spec2Model ----
(***************************************************************************)
(* Orchestration state machines of the DemandScan pages:                   *)
(*   - GradeTranscripts        (src/src/pages/GradeTranscripts.jsx)        *)
(*   - OpportunityEvaluation   (src/src/pages/OpportunityEvaluation.jsx)   *)
(*   - CustomerProblemAnalyst  (src/src/pages/OpportunityEvaluation.jsx,   *)
(*                              third component of the file)              *)
(* One page is mounted at a time; every page has its own specification.    *)
(* A handler is one action: all the setState calls it makes, the render    *)
(* that follows and the effects of that render are part of the action.     *)
(***************************************************************************)
EXTENDS Integers, Sequences, FiniteSets, Bags, TLC

VARIABLES
    \* ---- GradeTranscripts: React state
    gtTranscript,            \* transcript
    gtAgentStates,           \* agentStates
    gtIsAnalyzing,           \* isAnalyzing
    gtIsSequenceRunning,     \* isSequenceRunning
    gtShowResult,            \* showResult
    gtAnalysisResult,        \* analysisResult
    gtCurrentAnalysisIndex,  \* currentAnalysisIndex (0-based, as in the code)
    gtStateRef,              \* stateRef.current
    \* ---- GradeTranscripts: environment
    gtInFlight,              \* bag of external calls awaiting their response
    gtRetryTimers,           \* bag of pending setTimeout(runAnalysis, ANALYSIS_DELAY)
    \* ---- GradeTranscripts: observation (history) variables
    gtLast,                  \* what the last handler did
    gtAttempts,              \* calls issued per agent since the last resetAnalysisState
    gtStopped,               \* handleStopAnalysis ran and Analyze was not clicked since
    gtInterrupted,           \* a reset happened while a call or a retry timer was pending
    gtLeftOvers              \* number of calls and retry timers that resets have left pending

gtVars == <<gtTranscript, gtAgentStates, gtIsAnalyzing, gtIsSequenceRunning,
            gtShowResult, gtAnalysisResult, gtCurrentAnalysisIndex, gtStateRef,
            gtInFlight, gtRetryTimers, gtLast, gtAttempts,
            gtStopped, gtInterrupted, gtLeftOvers>>

VARIABLES
    \* ---- OpportunityEvaluation: React state (useLocalStorage and useState)
    oeTranscript,              \* transcript
    oeAnalyzingAgents,         \* analyzingAgents (a Set: its elements in insertion order)
    oeAnalyzingAgentsArray,    \* analyzingAgentsArray
    oeHasAnalyzed,             \* hasAnalyzed
    oeLocalAnalysisResults,    \* localAnalysisResults
    oeAgentProgress,           \* agentProgress
    oeShowResult,              \* showResult
    oeUserHasSelectedView,     \* userHasSelectedView
    oeIsOptimizingTranscript,  \* isOptimizingTranscript
    oeFinishedAgents,          \* finishedAgents (a Set: its elements in insertion order)
    oeFinishedAgentsArray,     \* finishedAgentsArray
    oeIsSequenceRunning,       \* isSequenceRunning
    oeCurrentRunningAgent,     \* currentRunningAgent
    oeSequenceCompletedRef,    \* sequenceCompletedRef.current
    oeContextChunkingFixedRef, \* contextChunkingFixedRef.current
    \* ---- OpportunityEvaluation: environment
    oeApiKey,                  \* localStorage 'llmApiKey' is set (Settings page)
    oeStorage,                 \* localStorage: the keys mirrored by useLocalStorage
    oeSaved,                   \* localStorage: the analysisResult_<agentId> keys
    oeProcs,                   \* bag of suspended async functions and pending timers
    \* ---- OpportunityEvaluation: observation (history) variables
    oeLast,                    \* what the last handler or continuation did
    oeCalls                    \* handler invocations made by the user so far

oeVars == <<oeTranscript, oeAnalyzingAgents, oeAnalyzingAgentsArray, oeHasAnalyzed,
            oeLocalAnalysisResults, oeAgentProgress, oeShowResult,
            oeUserHasSelectedView, oeIsOptimizingTranscript, oeFinishedAgents,
            oeFinishedAgentsArray, oeIsSequenceRunning, oeCurrentRunningAgent,
            oeSequenceCompletedRef, oeContextChunkingFixedRef,
            oeApiKey, oeStorage, oeSaved, oeProcs, oeLast, oeCalls>>

VARIABLES
    \* ---- CustomerProblemAnalyst (OpportunityEvaluation.jsx, lines 2816-3966)
    cpaTranscript,             \* transcript
    cpaAnalyzingAgents,        \* analyzingAgents (a Set: its elements in insertion order)
    cpaHasAnalyzed,            \* hasAnalyzed
    cpaLocalAnalysisResults,   \* localAnalysisResults, mirrored under 'analysisResults'
    cpaAgentProgress,          \* agentProgress
    cpaShowResult,             \* showResult
    cpaUserHasSelectedView,    \* userHasSelectedView
    cpaLastViewedResult,       \* lastViewedResult
    cpaCurrentAnalysisIndex,   \* currentAnalysisIndex
    cpaIsSequenceRunning,      \* isSequenceRunning
    cpaHandleRunAgentRef,      \* handleRunAgentRef.current: <<>> for null, else <<closure>>
    cpaHac,                    \* closure of the current handleAnalysisComplete callback
    cpaHra,                    \* closure of the current handleRunAgent callback
    cpaProcs,                  \* bag of awaited external calls and waits
    cpaLast,                   \* what the last handler or continuation did
    cpaCalls,                  \* handler invocations made by the user so far
    \* ---- the component the page shows
    mounted

cpaVars == <<cpaTranscript, cpaAnalyzingAgents, cpaHasAnalyzed, cpaLocalAnalysisResults,
             cpaAgentProgress, cpaShowResult, cpaUserHasSelectedView, cpaLastViewedResult,
             cpaCurrentAnalysisIndex, cpaIsSequenceRunning, cpaHandleRunAgentRef,
             cpaHac, cpaHra, cpaProcs, cpaLast, cpaCalls>>

vars == <<gtVars, oeVars, cpaVars, mounted>>

\* the pages are separate components: a step of one leaves the others alone
otherThanGt == <<oeVars, cpaVars, mounted>>

otherThanOe == <<gtVars, cpaVars, mounted>>

otherThanCpa == <<gtVars, oeVars, mounted>>

\* a bag of one pending call, wait or timer
One(x) == SetToBag({x})

\* what a handler returns to the step that runs it: the state it queues, what
\* it leaves pending, and what it did
Out(s, procs, ev) == [s |-> s, procs |-> procs, ev |-> ev]

(***************************************************************************)
(* Bounds of the model.                                                    *)
(***************************************************************************)
\* most external calls and retry timers of GradeTranscripts that resets (Stop,
\* Reset, Analyze, a failed key check) leave pending, over the life of the page
GtMaxLeftOvers == 1

\* most handler invocations the user makes on the OpportunityEvaluation page
\* (uploads, Analyze clicks, View Results, Reset Evaluation, reloads, direct calls);
\* View Results has OeMaxViews invocations more, see below
OeMaxCalls == 3

\* clicks of View Results the user may make beyond OeMaxCalls, each at a moment
\* when no async function or timer is pending
OeMaxViews == 1

\* most async functions and timers of OpportunityEvaluation pending at a time
OeMaxProcs == 3

CpaMaxCalls == 5

CpaMaxProcs == 2

(***************************************************************************)
(* GradeTranscripts                                                        *)
(***************************************************************************)
\* ../utils/analysisTypes is not part of the sources: the sequence is the one
\* initialAgentStates and the switch of runAnalysisRef.current enumerate.
GT_AGENT_SEQUENCE == <<"jtbd", "curse", "problemFit", "priming", "recommendations">>

\* "catch, toast, maybe retry 3 times with a fixed delay"
MAX_RETRIES == 3

GtAgents == {GT_AGENT_SEQUENCE[i] : i \in 1..Len(GT_AGENT_SEQUENCE)}

\* AGENT_SEQUENCE[i] of the code (0-based); "none" stands for undefined
GtAgentAt(i) ==
    IF i >= 0 /\ i < Len(GT_AGENT_SEQUENCE) THEN GT_AGENT_SEQUENCE[i + 1] ELSE "none"

\* contents the file upload hands to handleContentChange
GtTranscripts == {"T"}

\* A result payload is opaque; it is tagged by the call that produced it:
\* "fresh" (call issued in the current session) or "stale" (call or retry chain
\* left over from before the last resetAnalysisState).
initialAgentStates ==
    [a \in GtAgents |->
        [isAnalyzing |-> FALSE, progress |-> 0, results |-> "null", retryCount |-> 0]]

GtNoAnalysisResult == [set |-> FALSE, v |-> [a \in GtAgents |-> "null"]]

\* the React state of the component as one record
GtState ==
    [transcript |-> gtTranscript, agentStates |-> gtAgentStates,
     isAnalyzing |-> gtIsAnalyzing, isSequenceRunning |-> gtIsSequenceRunning,
     showResult |-> gtShowResult, analysisResult |-> gtAnalysisResult,
     currentAnalysisIndex |-> gtCurrentAnalysisIndex]

\* resetAnalysisState
resetAnalysisState_NoFlags(s) ==
    [s EXCEPT !.agentStates = initialAgentStates,
              !.currentAnalysisIndex = 0,
              !.showResult = FALSE,
              !.analysisResult = GtNoAnalysisResult]

resetAnalysisState(s) ==
    [s EXCEPT !.agentStates = initialAgentStates,
              !.currentAnalysisIndex = 0,
              !.isSequenceRunning = FALSE,
              !.isAnalyzing = FALSE,
              !.showResult = FALSE,
              !.analysisResult = GtNoAnalysisResult]

\* runAnalysisRef.current(agentId, content) up to its await: the state updates it
\* queues on top of s, and what it did ("apiKey": reset after a failed key check,
\* "guard": retry guard halted the sequence, "call": the external call was issued).
\* The retry guard reads stateRef.current, the increment reads React's prev state.
GtRunAnalysis_NoIncrement(s, agentId, keyOk) ==
    IF ~keyOk
    THEN [st |-> resetAnalysisState(s), out |-> "apiKey"]
    ELSE IF gtStateRef.agentStates[agentId].retryCount >= MAX_RETRIES
    THEN [st |-> [s EXCEPT !.isSequenceRunning = FALSE], out |-> "guard"]
    ELSE [st |-> [s EXCEPT !.agentStates[agentId] =
                        [@ EXCEPT !.isAnalyzing = TRUE, !.progress = 0]],
          out |-> "call"]

GtRunAnalysis(s, agentId, keyOk) ==
    IF ~keyOk
    THEN [st |-> resetAnalysisState(s), out |-> "apiKey"]
    ELSE IF gtStateRef.agentStates[agentId].retryCount >= MAX_RETRIES
    THEN [st |-> [s EXCEPT !.isSequenceRunning = FALSE], out |-> "guard"]
    ELSE [st |-> [s EXCEPT !.agentStates[agentId] =
                        [@ EXCEPT !.isAnalyzing = TRUE, !.progress = 0,
                                  !.retryCount = @ + 1]],
          out |-> "call"]

\* the progression effect's condition for scheduling its timer, on the rendered state
GtProgressionDue(s) ==
    /\ s.isSequenceRunning
    /\ GtAgentAt(s.currentAnalysisIndex) # "none"
    /\ s.agentStates[GtAgentAt(s.currentAnalysisIndex)].progress = 100
    /\ GtAgentAt(s.currentAnalysisIndex + 1) # "none"

\* the progression effect's first branch: no current agent ends the sequence
GtProgressionEffect(s) ==
    IF s.isSequenceRunning /\ GtAgentAt(s.currentAnalysisIndex) = "none"
    THEN [s EXCEPT !.isSequenceRunning = FALSE]
    ELSE s

\* the effect that keeps stateRef.current equal to the rendered state
GtSyncStateRef(s) ==
    [transcript |-> s.transcript, agentStates |-> s.agentStates,
     isSequenceRunning |-> s.isSequenceRunning,
     currentAnalysisIndex |-> s.currentAnalysisIndex]

\* render of the queued updates, then the effects of that render
GtCommit(s0) ==
    LET s == GtProgressionEffect(s0) IN
    /\ gtTranscript' = s.transcript
    /\ gtAgentStates' = s.agentStates
    /\ gtIsAnalyzing' = s.isAnalyzing
    /\ gtIsSequenceRunning' = s.isSequenceRunning
    /\ gtShowResult' = s.showResult
    /\ gtAnalysisResult' = s.analysisResult
    /\ gtCurrentAnalysisIndex' = s.currentAnalysisIndex
    /\ gtStateRef' = GtSyncStateRef(s)
    /\ UNCHANGED otherThanGt

GtPending == BagCardinality(gtInFlight) + BagCardinality(gtRetryTimers)

GtCall(agentId, content, stale) == [agent |-> agentId, content |-> content, stale |-> stale]

GtZero == [a \in GtAgents |-> 0]

\* every pending call and timer is left over once the session is reset
GtMarkStale(bag) ==
    LET els == BagToSet(bag)
        old == {[e EXCEPT !.stale = TRUE] : e \in els}
    IN  [o \in old |->
            (IF o \in els THEN bag[o] ELSE 0)
          + (IF [o EXCEPT !.stale = FALSE] \in els THEN bag[[o EXCEPT !.stale = FALSE]] ELSE 0)]

\* the calls and timers of bag that no reset has left behind yet
RECURSIVE GtFreshOf(_, _)
GtFreshOf(bag, els) ==
    IF els = {} THEN 0
    ELSE LET e == CHOOSE x \in els : TRUE
         IN  (IF e.stale THEN 0 ELSE bag[e]) + GtFreshOf(bag, els \ {e})

GtFreshIn(bag) == GtFreshOf(bag, BagToSet(bag))

\* a reset that leaves n calls or timers pending, while the bound allows it
GtLeaves(n) ==
    /\ gtLeftOvers + n <= GtMaxLeftOvers
    /\ gtLeftOvers' = gtLeftOvers + n
    /\ gtInterrupted' = (gtInterrupted \/ n > 0)

GtEvent(ev, agentId, startedCall, scheduledRetry) ==
    [ev |-> ev, agent |-> agentId, startedCall |-> startedCall,
     scheduledRetry |-> scheduledRetry]

\* Bookkeeping shared by the three callers of runAnalysisRef.current: commits the
\* outcome r of GtRunAnalysis, puts the call in flight when one was issued.
GtAfterRun(r, agentId, content, stale, inflight, timers, ev) ==
    /\ GtCommit(r.st)
    /\ gtRetryTimers' = IF r.out = "apiKey" THEN GtMarkStale(timers) ELSE timers
    /\ gtInFlight' =
         IF r.out = "call" THEN inflight (+) One(GtCall(agentId, content, stale))
         ELSE IF r.out = "apiKey" THEN GtMarkStale(inflight)
         ELSE inflight
    /\ gtLast' = GtEvent(IF r.out = "call" THEN ev
                         ELSE IF r.out = "apiKey" THEN "apiKeyCheckFailed"
                         ELSE "retryGuard",
                         agentId, r.out = "call", FALSE)

\* ---- actions of GradeTranscripts

\* handleContentChange
GtHandleContentChange(content) ==
    /\ content # gtTranscript
    /\ GtCommit([GtState EXCEPT !.transcript = content])
    /\ gtLast' = GtEvent("contentChange", "none", FALSE, FALSE)
    /\ UNCHANGED <<gtInFlight, gtRetryTimers, gtAttempts,
                   gtStopped, gtInterrupted, gtLeftOvers>>

\* handleAnalyze: the Analyze button is disabled while !transcript || isAnalyzing
\* (keyOk: checkApiKey(); when it fails handleAnalyze returns after its toast)
GtHandleAnalyze ==
    /\ gtTranscript # ""
    /\ ~gtIsAnalyzing
    /\ LET s1 == resetAnalysisState(GtState)
           s2 == [s1 EXCEPT !.isAnalyzing = TRUE, !.isSequenceRunning = TRUE]
           agentId == GT_AGENT_SEQUENCE[1]
           r == GtRunAnalysis(s2, agentId, TRUE)
       IN  /\ GtAfterRun(r, agentId, gtTranscript, FALSE,
                         GtMarkStale(gtInFlight), GtMarkStale(gtRetryTimers), "analyze")
           /\ gtAttempts' = IF r.out = "call" THEN [GtZero EXCEPT ![agentId] = 1]
                            ELSE GtZero
    /\ gtStopped' = FALSE
    /\ GtLeaves(GtFreshIn(gtInFlight) + GtFreshIn(gtRetryTimers))

\* handleStopAnalysis: the Stop button is rendered while isAnalyzing
GtHandleStopAnalysis ==
    /\ gtIsAnalyzing
    /\ GtCommit(resetAnalysisState(GtState))
    /\ gtInFlight' = GtMarkStale(gtInFlight)
    /\ gtRetryTimers' = GtMarkStale(gtRetryTimers)
    /\ gtLast' = GtEvent("stop", "none", FALSE, FALSE)
    /\ gtAttempts' = GtZero
    /\ gtStopped' = TRUE
    /\ GtLeaves(GtFreshIn(gtInFlight) + GtFreshIn(gtRetryTimers))

\* the "Reset Transcript" button of the header: onClick={resetAnalysisState}
GtResetClick ==
    /\ GtState # resetAnalysisState(GtState)
    /\ GtCommit(resetAnalysisState(GtState))
    /\ gtInFlight' = GtMarkStale(gtInFlight)
    /\ gtRetryTimers' = GtMarkStale(gtRetryTimers)
    /\ gtLast' = GtEvent("reset", "none", FALSE, FALSE)
    /\ gtAttempts' = GtZero
    /\ GtLeaves(GtFreshIn(gtInFlight) + GtFreshIn(gtRetryTimers))
    /\ UNCHANGED gtStopped

\* the progression effect's timer: setCurrentAnalysisIndex(nextIndex), then
\* runAnalysisRef.current(nextAgent, stateRef.current.transcript)
GtProgressionTimer(keyOk) ==
    /\ GtProgressionDue(GtState)
    /\ LET nextIndex == gtCurrentAnalysisIndex + 1
           agentId == GtAgentAt(nextIndex)
           s1 == [GtState EXCEPT !.currentAnalysisIndex = nextIndex]
           r == GtRunAnalysis(s1, agentId, keyOk)
       IN  /\ gtAttempts[agentId] <= MAX_RETRIES
           /\ GtAfterRun(r, agentId, gtStateRef.transcript, FALSE,
                         gtInFlight, gtRetryTimers, "progression")
           /\ gtAttempts' = IF r.out = "call" THEN [gtAttempts EXCEPT ![agentId] = @ + 1]
                            ELSE IF r.out = "apiKey" THEN GtZero ELSE gtAttempts
           /\ GtLeaves(IF r.out = "apiKey"
                       THEN GtFreshIn(gtInFlight) + GtFreshIn(gtRetryTimers) ELSE 0)
    /\ UNCHANGED gtStopped

\* the retry timer set by the catch branch fires
GtRetryTimer(t, keyOk) ==
    /\ BagIn(t, gtRetryTimers)
    /\ gtAttempts[t.agent] <= MAX_RETRIES
    /\ LET r == GtRunAnalysis(GtState, t.agent, keyOk)
           rest == gtRetryTimers (-) One(t)
       IN  /\ GtAfterRun(r, t.agent, t.content, t.stale, gtInFlight, rest, "retry")
           /\ gtAttempts' = IF r.out = "call" THEN [gtAttempts EXCEPT ![t.agent] = @ + 1]
                            ELSE IF r.out = "apiKey" THEN GtZero ELSE gtAttempts
           /\ GtLeaves(IF r.out = "apiKey"
                       THEN GtFreshIn(gtInFlight) + GtFreshIn(rest) ELSE 0)
    /\ UNCHANGED gtStopped

\* a success path that stores the result and compiles nothing
GtResolveState_NoFinalResults(s, c) ==
    [s EXCEPT !.agentStates[c.agent] =
        [@ EXCEPT !.results = IF c.stale THEN "stale" ELSE "fresh",
                  !.progress = 100, !.isAnalyzing = FALSE]]

\* the state the success path of runAnalysisRef.current queues (lines 199-224)
GtResolveState(s, c) ==
    LET tag == IF c.stale THEN "stale" ELSE "fresh"
        s1 == [s EXCEPT !.agentStates[c.agent] =
                    [@ EXCEPT !.results = tag, !.progress = 100, !.isAnalyzing = FALSE]]
    IN  IF c.agent = GT_AGENT_SEQUENCE[Len(GT_AGENT_SEQUENCE)]
        THEN [s1 EXCEPT
                !.analysisResult =
                    [set |-> TRUE,
                     v |-> [a \in GtAgents |->
                              IF a = GT_AGENT_SEQUENCE[Len(GT_AGENT_SEQUENCE)] THEN tag
                              ELSE gtStateRef.agentStates[a].results]],
                !.showResult = TRUE,
                !.isSequenceRunning = FALSE,
                !.isAnalyzing = FALSE]
        ELSE s1

\* the external call of c resolves
GtCallResolves(c) ==
    /\ BagIn(c, gtInFlight)
    /\ GtCommit(GtResolveState(GtState, c))
    /\ gtInFlight' = gtInFlight (-) One(c)
    /\ gtLast' = GtEvent("resolved", c.agent, FALSE, FALSE)
    /\ UNCHANGED <<gtRetryTimers, gtAttempts, gtStopped, gtInterrupted, gtLeftOvers>>

\* what the catch branch decides (lines 225-242): "apiKey", "retry" or "halt"
GtCatchBranch(apiKeyError, agentId) ==
    IF apiKeyError THEN "apiKey"
    ELSE IF gtStateRef.agentStates[agentId].retryCount < MAX_RETRIES THEN "retry"
    ELSE "halt"

\* the external call of c rejects; apiKeyError: error.message includes 'API key'
GtCallRejects(c, apiKeyError) ==
    /\ BagIn(c, gtInFlight)
    /\ LET b == GtCatchBranch(apiKeyError, c.agent)
           rest == gtInFlight (-) One(c)
       IN  /\ GtCommit(IF b = "apiKey" THEN resetAnalysisState(GtState)
                       ELSE IF b = "halt"
                       THEN [GtState EXCEPT !.isSequenceRunning = FALSE,
                                            !.isAnalyzing = FALSE]
                       ELSE GtState)
           /\ gtInFlight' = IF b = "apiKey" THEN GtMarkStale(rest) ELSE rest
           /\ gtRetryTimers' =
                IF b = "retry" THEN gtRetryTimers (+) One(c)
                ELSE IF b = "apiKey" THEN GtMarkStale(gtRetryTimers)
                ELSE gtRetryTimers
           /\ gtLast' = GtEvent(IF b = "apiKey" THEN "apiKeyRejected"
                                ELSE IF b = "halt" THEN "exhausted" ELSE "rejected",
                                c.agent, FALSE, b = "retry")
           /\ gtAttempts' = IF b = "apiKey" THEN GtZero ELSE gtAttempts
           /\ GtLeaves(IF b = "apiKey"
                       THEN GtFreshIn(rest) + GtFreshIn(gtRetryTimers) ELSE 0)
    /\ UNCHANGED gtStopped

GtInit ==
    /\ gtTranscript = ""
    /\ gtAgentStates = initialAgentStates
    /\ gtIsAnalyzing = FALSE
    /\ gtIsSequenceRunning = FALSE
    /\ gtShowResult = FALSE
    /\ gtAnalysisResult = GtNoAnalysisResult
    /\ gtCurrentAnalysisIndex = 0
    /\ gtStateRef = [transcript |-> "", agentStates |-> initialAgentStates,
                     isSequenceRunning |-> FALSE, currentAnalysisIndex |-> 0]
    /\ gtInFlight = EmptyBag
    /\ gtRetryTimers = EmptyBag
    /\ gtLast = GtEvent("mount", "none", FALSE, FALSE)
    /\ gtAttempts = GtZero
    /\ gtStopped = FALSE
    /\ gtInterrupted = FALSE
    /\ gtLeftOvers = 0

GtNext ==
    \/ \E content \in GtTranscripts : GtHandleContentChange(content)
    \/ GtHandleAnalyze
    \/ GtHandleStopAnalysis
    \/ GtResetClick
    \/ \E keyOk \in BOOLEAN : GtProgressionTimer(keyOk)
    \/ \E t \in BagToSet(gtRetryTimers), keyOk \in BOOLEAN : GtRetryTimer(t, keyOk)
    \/ \E c \in BagToSet(gtInFlight) : GtCallResolves(c)
    \/ \E c \in BagToSet(gtInFlight), apiKeyError \in BOOLEAN : GtCallRejects(c, apiKeyError)

(***************************************************************************)
(* OpportunityEvaluation: data                                             *)
(***************************************************************************)
OE_AGENT_SEQUENCE ==
    <<"longContextChunking", "needsAnalysis", "demandAnalyst",
      "opportunityQualification", "finalReport">>

OeAgents == {OE_AGENT_SEQUENCE[i] : i \in 1..Len(OE_AGENT_SEQUENCE)}

\* a loop that does not advance past its second agent
OeIndexOf_First(a) == 1

OeIndexOf(a) == CHOOSE i \in 1..Len(OE_AGENT_SEQUENCE) : OE_AGENT_SEQUENCE[i] = a

\* AGENT_DEPENDENCIES of the page
AGENT_DEPENDENCIES ==
    [a \in OeAgents |->
        CASE a = "needsAnalysis" -> {"longContextChunking"}
          [] a = "demandAnalyst" -> {"needsAnalysis"}
          [] a = "opportunityQualification" -> {"demandAnalyst"}
          [] a = "finalReport" -> {"needsAnalysis", "demandAnalyst", "opportunityQualification"}
          [] OTHER -> {}]

visibleAgentSequence ==
    <<"needsAnalysis", "demandAnalyst", "opportunityQualification", "finalReport">>

OeVisibleAgents == {visibleAgentSequence[i] : i \in 1..Len(visibleAgentSequence)}

\* a registry that declares finalReport before the agent it requires
agents_FinalReportEarly ==
    <<"longContextChunking", "jtbd", "jtbdGains", "painExtractor", "finalReport",
      "problemAwareness", "needsAnalysis", "demandAnalyst", "opportunityQualification">>

\* the registry of data/agents.js, in its declared order
agents ==
    <<"longContextChunking", "jtbd", "jtbdGains", "painExtractor", "problemAwareness",
      "needsAnalysis", "demandAnalyst", "opportunityQualification", "finalReport">>

AgentIds == {agents[i] : i \in 1..Len(agents)}

\* a registry whose needsAnalysis declares no prerequisite
requiresPreviousAgent_NeedsFree ==
    [a \in AgentIds |->
        CASE a = "jtbd" -> "longContextChunking"
          [] a = "jtbdGains" -> "jtbd"
          [] a = "painExtractor" -> "jtbdGains"
          [] a = "problemAwareness" -> "painExtractor"
          [] a = "demandAnalyst" -> "needsAnalysis"
          [] a = "opportunityQualification" -> "demandAnalyst"
          [] a = "finalReport" -> "problemAwareness"
          [] OTHER -> "none"]

\* requiresPreviousAgent of the registry; "none" when the agent declares none
requiresPreviousAgent ==
    [a \in AgentIds |->
        CASE a = "jtbd" -> "longContextChunking"
          [] a = "jtbdGains" -> "jtbd"
          [] a = "painExtractor" -> "jtbdGains"
          [] a = "problemAwareness" -> "painExtractor"
          [] a = "needsAnalysis" -> "longContextChunking"
          [] a = "demandAnalyst" -> "needsAnalysis"
          [] a = "opportunityQualification" -> "demandAnalyst"
          [] a = "finalReport" -> "problemAwareness"
          [] OTHER -> "none"]

\* transcripts the user uploads
OeTranscripts == {"T"}

\* A result payload is opaque; only its origin is kept:
\*   "real"     what processWithLongContextChunking returned
\*   "fallback" the fallbackResult stored when that call failed
\*   "dummy"    the dummyResult of the loop of startAnalysisSequence
\*   "dummyRaw" the needsAnalysis dummyResult built from the raw transcript
\*   "test"     the TEST MODE result of processWithAgent
\* "none" stands for a key that localAnalysisResults does not have.
OeNoResults == [a \in OeAgents |-> "none"]

\* localAnalysisResults[id] is truthy
OeHas(results, id) == IF id \in OeAgents THEN results[id] # "none" ELSE FALSE

OeCompleted(results) == {a \in OeAgents : results[a] # "none"}

\* an agentProgress entry; status "idle" stands for a missing entry
OeProgress(progress, status) == [progress |-> progress, status |-> status]

OeNoProgress == [a \in OeAgents |-> OeProgress(0, "idle")]

\* ---- JavaScript Set, kept as the sequence of its elements in insertion order
SetHas(set, a) == \E i \in 1..Len(set) : set[i] = a

SetAdd(set, a) == IF SetHas(set, a) THEN set ELSE Append(set, a)

SetDelete(set, a) == SelectSeq(set, LAMBDA x : x # a)

\* new Set(array)
RECURSIVE NewSet(_)
NewSet(array) ==
    IF Len(array) = 0 THEN <<>>
    ELSE SetAdd(NewSet(SubSeq(array, 1, Len(array) - 1)), array[Len(array)])

\* Array.from(set)
ArrayFrom(set) == set

SetElements(set) == {set[i] : i \in 1..Len(set)}

\* ---- JSON text of the two objects the page persists: an object is the set of
\* its own (key, value) entries
JsonOfResults(results) == {<<a, results[a]>> : a \in OeCompleted(results)}

ResultsOfJson(json) ==
    [a \in OeAgents |->
        IF \E e \in json : e[1] = a THEN (CHOOSE e \in json : e[1] = a)[2] ELSE "none"]

JsonOfProgress(agentProgress) ==
    {<<a, agentProgress[a].progress, agentProgress[a].status>> :
        a \in {x \in OeAgents : agentProgress[x].status # "idle"}}

ProgressOfJson(json) ==
    [a \in OeAgents |->
        IF \E e \in json : e[1] = a
        THEN LET e == CHOOSE x \in json : x[1] = a IN OeProgress(e[2], e[3])
        ELSE OeProgress(0, "idle")]

(***************************************************************************)
(* OpportunityEvaluation: state, persistence and effects                   *)
(***************************************************************************)
\* The state of one render. setAnalyzing / setFinished tell that the handler
\* called setAnalyzingAgents / setFinishedAgents / setLocalAnalysisResults (a new
\* object, so the effects that depend on it run); toast is the toast the handler
\* showed.
OeState ==
    [transcript |-> oeTranscript,
     analyzingAgents |-> oeAnalyzingAgents,
     analyzingAgentsArray |-> oeAnalyzingAgentsArray,
     hasAnalyzed |-> oeHasAnalyzed,
     localAnalysisResults |-> oeLocalAnalysisResults,
     agentProgress |-> oeAgentProgress,
     showResult |-> oeShowResult,
     userHasSelectedView |-> oeUserHasSelectedView,
     isOptimizingTranscript |-> oeIsOptimizingTranscript,
     finishedAgents |-> oeFinishedAgents,
     finishedAgentsArray |-> oeFinishedAgentsArray,
     isSequenceRunning |-> oeIsSequenceRunning,
     currentRunningAgent |-> oeCurrentRunningAgent,
     sequenceCompletedRef |-> oeSequenceCompletedRef,
     contextChunkingFixedRef |-> oeContextChunkingFixedRef,
     saved |-> oeSaved,
     setAnalyzing |-> FALSE,
     setFinished |-> FALSE,
     setResults |-> FALSE,
     toast |-> "none"]

\* the state of the first render on an empty localStorage
OeInitialState ==
    [transcript |-> "",
     analyzingAgents |-> <<>>,
     analyzingAgentsArray |-> <<>>,
     hasAnalyzed |-> FALSE,
     localAnalysisResults |-> OeNoResults,
     agentProgress |-> OeNoProgress,
     showResult |-> "null",
     userHasSelectedView |-> FALSE,
     isOptimizingTranscript |-> FALSE,
     finishedAgents |-> <<>>,
     finishedAgentsArray |-> <<>>,
     isSequenceRunning |-> FALSE,
     currentRunningAgent |-> "null",
     sequenceCompletedRef |-> FALSE,
     contextChunkingFixedRef |-> FALSE,
     saved |-> OeNoResults,
     setAnalyzing |-> FALSE,
     setFinished |-> FALSE,
     setResults |-> FALSE,
     toast |-> "none"]

\* useLocalStorage (the hook is not part of the sources): every value set is
\* written under its key as JSON text, and read back by the first render
OeMirror(s) ==
    [opportunityTranscript |-> s.transcript,
     opportunityAnalyzingAgents |-> s.analyzingAgentsArray,
     opportunityHasAnalyzed |-> s.hasAnalyzed,
     opportunityResults |-> JsonOfResults(s.localAnalysisResults),
     opportunityAgentProgress |-> JsonOfProgress(s.agentProgress),
     opportunityShowResult |-> s.showResult,
     opportunityUserSelectedView |-> s.userHasSelectedView,
     opportunityIsOptimizing |-> s.isOptimizingTranscript,
     opportunityFinishedAgents |-> s.finishedAgentsArray,
     opportunityIsSequenceRunning |-> s.isSequenceRunning,
     opportunityCurrentAgent |-> s.currentRunningAgent]

\* the useState / useLocalStorage initialisers of the component (lines 225-278)
OeStateFromStorage(storage, saved) ==
    [transcript |-> storage.opportunityTranscript,
     analyzingAgents |-> NewSet(storage.opportunityAnalyzingAgents),
     analyzingAgentsArray |-> storage.opportunityAnalyzingAgents,
     hasAnalyzed |-> storage.opportunityHasAnalyzed,
     localAnalysisResults |-> ResultsOfJson(storage.opportunityResults),
     agentProgress |-> ProgressOfJson(storage.opportunityAgentProgress),
     showResult |-> storage.opportunityShowResult,
     userHasSelectedView |-> storage.opportunityUserSelectedView,
     isOptimizingTranscript |-> storage.opportunityIsOptimizing,
     finishedAgents |-> NewSet(storage.opportunityFinishedAgents),
     finishedAgentsArray |-> storage.opportunityFinishedAgents,
     isSequenceRunning |-> storage.opportunityIsSequenceRunning,
     currentRunningAgent |-> storage.opportunityCurrentAgent,
     sequenceCompletedRef |-> FALSE,
     contextChunkingFixedRef |-> FALSE,
     saved |-> saved,
     setAnalyzing |-> TRUE,
     setFinished |-> TRUE,
     setResults |-> TRUE,
     toast |-> "none"]

\* the two sync effects (lines 280-302): the Set is written to its array when the
\* stored array differs
OeSyncSets(s) ==
    LET s1 == IF s.setAnalyzing /\ ArrayFrom(s.analyzingAgents) # s.analyzingAgentsArray
              THEN [s EXCEPT !.analyzingAgentsArray = ArrayFrom(s.analyzingAgents)]
              ELSE s
    IN  IF s1.setFinished /\ ArrayFrom(s1.finishedAgents) # s1.finishedAgentsArray
        THEN [s1 EXCEPT !.finishedAgentsArray = ArrayFrom(s1.finishedAgents)]
        ELSE s1

\* the first agent of seq that has a result, "null" when none has
RECURSIVE OeFirstWithResult(_, _)
OeFirstWithResult(seq, results) ==
    IF Len(seq) = 0 THEN "null"
    ELSE IF OeHas(results, Head(seq)) THEN Head(seq)
    ELSE OeFirstWithResult(Tail(seq), results)

\* the last agent of seq that has a result, "null" when none has
RECURSIVE OeLastWithResult(_, _)
OeLastWithResult(seq, results) ==
    IF Len(seq) = 0 THEN "null"
    ELSE IF OeHas(results, seq[Len(seq)]) THEN seq[Len(seq)]
    ELSE OeLastWithResult(SubSeq(seq, 1, Len(seq) - 1), results)

\* An effect reads the values of the render (cur) and queues its updates (on acc).
\* "first completed agent" effect (lines 340-350)
OeFirstCompletedEffect(cur, acc) ==
    IF ~cur.userHasSelectedView /\ cur.hasAnalyzed
       /\ OeFirstWithResult(OE_AGENT_SEQUENCE, cur.localAnalysisResults) # "null"
    THEN [acc EXCEPT !.showResult =
                OeFirstWithResult(OE_AGENT_SEQUENCE, cur.localAnalysisResults)]
    ELSE acc

\* "simplified sequential agent handling" effect (lines 1421-1460)
OeSequenceEffect(cur, acc) ==
    IF cur.sequenceCompletedRef \/ OeCompleted(cur.localAnalysisResults) = {}
    THEN acc
    ELSE LET a1 == IF \E a \in {"needsAnalysis", "demandAnalyst", "opportunityQualification"} :
                        OeHas(cur.localAnalysisResults, a)
                   THEN [acc EXCEPT !.hasAnalyzed = TRUE] ELSE acc
             a2 == IF ~cur.isSequenceRunning /\ Len(cur.analyzingAgents) = 0
                   THEN [a1 EXCEPT !.sequenceCompletedRef = TRUE] ELSE a1
         IN  IF cur.showResult = "null" /\ ~cur.userHasSelectedView
                /\ OeLastWithResult(visibleAgentSequence, cur.localAnalysisResults) # "null"
             THEN [a2 EXCEPT !.showResult =
                        OeLastWithResult(visibleAgentSequence, cur.localAnalysisResults)]
             ELSE a2

\* longContextChunking safeguard effect (lines 1462-1484)
OeChunkingSafeguardEffect(cur, acc) ==
    IF cur.showResult # "longContextChunking" \/ cur.contextChunkingFixedRef
    THEN acc
    ELSE [acc EXCEPT
            !.contextChunkingFixedRef = TRUE,
            !.showResult =
                OeFirstWithResult(<<"needsAnalysis", "demandAnalyst", "opportunityQualification">>,
                                  cur.localAnalysisResults)]

\* The effects of the render cur that follows the render prev, in the order of
\* their declaration: an effect runs on mount and when one of its dependencies
\* changed. Their updates are applied together, the last one wins.
OeEffects(prev, cur, mount) ==
    LET r == mount \/ cur.setResults
        view == <<cur.showResult, cur.userHasSelectedView>>
                    # <<prev.showResult, prev.userHasSelectedView>>
        a0 == OeSyncSets(cur)
        a1 == IF r \/ view \/ cur.hasAnalyzed # prev.hasAnalyzed
              THEN OeFirstCompletedEffect(cur, a0) ELSE a0
        a2 == IF \/ r \/ view
                 \/ cur.isSequenceRunning # prev.isSequenceRunning
                 \/ Len(cur.analyzingAgents) # Len(prev.analyzingAgents)
              THEN OeSequenceEffect(cur, a1) ELSE a1
        a3 == IF r \/ cur.showResult # prev.showResult
              THEN OeChunkingSafeguardEffect(cur, a2) ELSE a2
    IN  [a3 EXCEPT !.setAnalyzing = FALSE, !.setFinished = FALSE, !.setResults = FALSE]

\* renders until no effect changes the state
RECURSIVE OeSettle(_, _, _)
OeSettle(prev, cur, mount) ==
    LET t == OeEffects(prev, cur, mount)
    IN  IF t = cur THEN cur ELSE OeSettle(cur, t, FALSE)

\* the render that follows a handler, with its effects
OeRender(s) == OeSettle(OeState, s, FALSE)

\* the first render of the page after a reload
OeMount(storage, saved) ==
    OeSettle(OeStateFromStorage(storage, saved), OeStateFromStorage(storage, saved), TRUE)

\* isDone (lines 308-330)
isDone(s, agentId) ==
    \/ OeHas(s.localAnalysisResults, agentId)
    \/ SetHas(s.finishedAgents, agentId)

\* the upload panel (FileUpload and the Analyze button) is rendered (line 1594)
OeUploadPanelShown(s) ==
    ~(\/ s.showResult \notin {"null", "longContextChunking"}
      \/ (s.hasAnalyzed /\ OeHas(s.localAnalysisResults, "needsAnalysis")))

\* what a callback created by the render of s keeps in its closure
OeClosure(s) ==
    [transcript |-> s.transcript,
     localAnalysisResults |-> s.localAnalysisResults,
     showResult |-> s.showResult,
     userHasSelectedView |-> s.userHasSelectedView,
     currentRunningAgent |-> s.currentRunningAgent,
     isSequenceRunning |-> s.isSequenceRunning]

\* a suspended async function or a pending timer
\*   kind "seq"        startAnalysisSequence, suspended at pc
\*   kind "pwa"        processWithAgent(agent), suspended at pc; ret tells its caller
\*   kind "next"       runNextAgentInSequence, suspended at pc
\*   kind "t50"        the 50 ms timer of processWithAgent (lines 683-690)
\*   kind "cleanup300" the 300 ms timer of cleanupAgentState
\*   kind "cleanup100" the 100 ms timer of cleanupAgentState
\*   kind "reload"     the 500 ms timer of handleClearData
OeProc(kind, pc, agent, cl, ret, failed) ==
    [kind |-> kind, pc |-> pc, agent |-> agent, cl |-> cl, ret |-> ret, failed |-> failed]

\* what the last step did:
\*   started      the agent whose run the step started ("none": no agent)
\*   prereqStored every agent of AGENT_DEPENDENCIES[started] had a result then
\*   toast        the toast shown
\*   waitsFor     the agent runNextAgentInSequence will run after its 800 ms wait
\*   saw          what the invocation of runNextAgentInSequence read in its closure
\*   fresh        the callback was created by the current render
\*   failed       the longContextChunking call of this run failed
OeEvent(ev, agent, started, prereqStored, toast, waitsFor, saw, fresh, failed) ==
    [ev |-> ev, agent |-> agent, started |-> started, prereqStored |-> prereqStored,
     toast |-> toast, waitsFor |-> waitsFor, saw |-> saw, fresh |-> fresh,
     failed |-> failed]

OeSawNothing == [isSequenceRunning |-> FALSE, completed |-> {}]

OePlainEvent(ev, agent, toast) ==
    OeEvent(ev, agent, "none", TRUE, toast, "none", OeSawNothing, TRUE, FALSE)

OePrereqStored(s, agentId) ==
    \A d \in AGENT_DEPENDENCIES[agentId] : OeHas(s.localAnalysisResults, d)

\* commits the rendered state of a step and mirrors it to localStorage
OeCommit(s0, procs, last) ==
    LET s == s0
    IN  /\ BagCardinality(procs) <= OeMaxProcs
        /\ oeTranscript' = s.transcript
        /\ oeAnalyzingAgents' = s.analyzingAgents
        /\ oeAnalyzingAgentsArray' = s.analyzingAgentsArray
        /\ oeHasAnalyzed' = s.hasAnalyzed
        /\ oeLocalAnalysisResults' = s.localAnalysisResults
        /\ oeAgentProgress' = s.agentProgress
        /\ oeShowResult' = s.showResult
        /\ oeUserHasSelectedView' = s.userHasSelectedView
        /\ oeIsOptimizingTranscript' = s.isOptimizingTranscript
        /\ oeFinishedAgents' = s.finishedAgents
        /\ oeFinishedAgentsArray' = s.finishedAgentsArray
        /\ oeIsSequenceRunning' = s.isSequenceRunning
        /\ oeCurrentRunningAgent' = s.currentRunningAgent
        /\ oeSequenceCompletedRef' = s.sequenceCompletedRef
        /\ oeContextChunkingFixedRef' = s.contextChunkingFixedRef
        /\ oeSaved' = s.saved
        /\ oeStorage' = OeMirror(s)
        /\ oeProcs' = procs
        /\ oeLast' = last
        /\ UNCHANGED <<oeApiKey, otherThanOe>>

(***************************************************************************)
(* OpportunityEvaluation: handlers                                         *)
(* A handler maps the state s it runs on to the state it queues; cl is the *)
(* closure of the callback, proc what it leaves pending, ev what it did.   *)
(***************************************************************************)
\* updateAgentProgress
updateAgentProgress(s, agentId, progress, status) ==
    [s EXCEPT !.agentProgress[agentId] = OeProgress(progress, status)]

\* setLocalAnalysisResults(prev => ({...prev, [agentId]: result}))
OeStoreResult(s, agentId, result) ==
    [s EXCEPT !.localAnalysisResults[agentId] = result, !.setResults = TRUE]

\* clearAllState (lines 1319-1361)
clearAllState(s) ==
    [s EXCEPT
        !.localAnalysisResults = OeNoResults,
        !.setResults = TRUE,
        !.agentProgress = OeNoProgress,
        !.transcript = "",
        !.analyzingAgents = <<>>,
        !.setAnalyzing = TRUE,
        !.analyzingAgentsArray = <<>>,
        !.hasAnalyzed = FALSE,
        !.showResult = "null",
        !.currentRunningAgent = "null",
        !.isSequenceRunning = FALSE,
        !.userHasSelectedView = FALSE,
        !.isOptimizingTranscript = FALSE,
        !.finishedAgents = <<>>,
        !.setFinished = TRUE,
        !.finishedAgentsArray = <<>>]

\* handleClearData (lines 1364-1385)
handleClearData(s) ==
    [clearAllState(s) EXCEPT !.toast = "dataReset"]

\* an upload that also forgets the finished agents
handleContentChange_ForgetsFinished(s, content) ==
    [s EXCEPT
        !.analyzingAgents = <<>>,
        !.setAnalyzing = TRUE,
        !.agentProgress = OeNoProgress,
        !.localAnalysisResults = OeNoResults,
        !.setResults = TRUE,
        !.hasAnalyzed = FALSE,
        !.finishedAgents = <<>>,
        !.setFinished = TRUE,
        !.transcript = content]

\* handleContentChange (lines 1303-1311)
handleContentChange(s, content) ==
    [s EXCEPT
        !.analyzingAgents = <<>>,
        !.setAnalyzing = TRUE,
        !.agentProgress = OeNoProgress,
        !.localAnalysisResults = OeNoResults,
        !.setResults = TRUE,
        !.hasAnalyzed = FALSE,
        !.transcript = content]

\* handleViewResult (lines 417-448)
handleViewResult(s, cl, agentId) ==
    LET saved1 == IF cl.showResult # "null" /\ OeHas(cl.localAnalysisResults, cl.showResult)
                  THEN [s.saved EXCEPT ![cl.showResult] = cl.localAnalysisResults[cl.showResult]]
                  ELSE s.saved
        s1 == [s EXCEPT !.saved = saved1]
        s2 == IF saved1[agentId] # "none"
              THEN OeStoreResult(s1, agentId, saved1[agentId])
              ELSE s1
    IN  [s2 EXCEPT !.showResult = agentId, !.userHasSelectedView = TRUE]

\* cleanupAgentState (lines 462-526) only arms a timer
cleanupAgentState(cl, agentId) ==
    One(OeProc("cleanup300", "timer", agentId, cl, "none", FALSE))

\* the 300 ms timer of cleanupAgentState (lines 466-525)
OeCleanup300Body(s, cl, agentId) ==
    LET s1 == [s EXCEPT !.analyzingAgents = SetDelete(s.analyzingAgents, agentId),
                        !.setAnalyzing = TRUE]
        s2 == IF agentId = cl.currentRunningAgent
              THEN [s1 EXCEPT !.currentRunningAgent = "null"] ELSE s1
    IN  IF OeCompleted(cl.localAnalysisResults) # {}
        THEN Out([s2 EXCEPT !.hasAnalyzed = TRUE],
                   One(OeProc("cleanup100", "timer", agentId, cl, "none", FALSE)),
                   "none")
        ELSE Out(s2, EmptyBag, "none")

\* the 100 ms timer of cleanupAgentState (lines 496-523): no element carries
\* data-analyzing-agents, so the size it reads is always '0'
OeCleanup100Body(s, cl) ==
    IF ~cl.userHasSelectedView
       /\ OeLastWithResult(<<"needsAnalysis", "demandAnalyst", "opportunityQualification">>,
                           cl.localAnalysisResults) # "null"
    THEN [s EXCEPT !.showResult =
            OeLastWithResult(<<"needsAnalysis", "demandAnalyst", "opportunityQualification">>,
                             cl.localAnalysisResults)]
    ELSE s

\* processWithAgent up to its first await (lines 529-588). ev is "noApiKey" when
\* it returned null at once, "started" when the run of agentId began.
OePwaStart(s, cl, agentId, ret) ==
    IF ~oeApiKey /\ agentId # "longContextChunking"
    THEN Out([s EXCEPT !.toast = "apiKeyMissing"], cleanupAgentState(cl, agentId), "noApiKey")
    ELSE Out(updateAgentProgress(
                   [s EXCEPT !.analyzingAgents = SetAdd(s.analyzingAgents, agentId),
                             !.setAnalyzing = TRUE,
                             !.currentRunningAgent = agentId],
                   agentId, 0, "loading"),
               One(OeProc("pwa", "w300", agentId, cl, ret, FALSE)),
               "started")

\* processWithAgent from the end of its progress loop to its return (lines
\* 597-735). The 500 ms timer it arms does nothing when there is a result.
OePwaFinish(s, cl, agentId) ==
    Out(updateAgentProgress(OeStoreResult(s, agentId, "test"), agentId, 100, "success"),
          IF agentId \in {"needsAnalysis", "demandAnalyst"}
          THEN One(OeProc("t50", "timer", agentId, cl, "none", FALSE))
          ELSE EmptyBag,
          "finished")

\* the 50 ms timer of processWithAgent (lines 683-690)
OeTimer50Body(s, cl, agentId) ==
    IF ~cl.userHasSelectedView /\ cl.showResult \in {"null", "longContextChunking"}
    THEN [s EXCEPT !.hasAnalyzed = TRUE, !.showResult = agentId]
    ELSE [s EXCEPT !.hasAnalyzed = TRUE]

\* a search that does not look at the results
OeNextAgent_FirstVisible(cl) == visibleAgentSequence[1]

\* visibleAgentSequence.findIndex(agentId => !completedAgents.has(agentId))
OeNextAgent(cl) ==
    LET open == {i \in 1..Len(visibleAgentSequence) :
                    ~OeHas(cl.localAnalysisResults, visibleAgentSequence[i])}
    IN  IF open = {} THEN "none"
        ELSE visibleAgentSequence[CHOOSE i \in open : \A j \in open : i <= j]

\* the prerequisite of the registry can itself be run (lines 817-821)
OeRunnable(cl, missingId) ==
    \/ requiresPreviousAgent[missingId] = "none"
    \/ OeHas(cl.localAnalysisResults, requiresPreviousAgent[missingId])

\* a branch that shows the error and leaves the sequence running
OeCannotRun_KeepsRunning(s) == [s EXCEPT !.toast = "cannotRun"]

\* the prerequisite cannot be run: the error is shown and the sequence stopped
\* (lines 829-836)
OeCannotRun(s) == [s EXCEPT !.toast = "cannotRun", !.isSequenceRunning = FALSE]

\* runNextAgentInSequence up to its first await (lines 754-841).
\* ev: "notRunning", "done", "prerequisite" (a missing prerequisite is run
\* instead), "cannotRun", "wait800" (the next agent runs after the wait).
OeRunNextBody(s, cl) ==
    LET s1 == IF \/ cl.showResult = "longContextChunking"
                 \/ (OeHas(cl.localAnalysisResults, "longContextChunking")
                     /\ cl.currentRunningAgent = "longContextChunking")
              THEN [s EXCEPT !.showResult = "null"] ELSE s
        nextAgentId == OeNextAgent(cl)
        missingId == requiresPreviousAgent[nextAgentId]
    IN  IF ~cl.isSequenceRunning THEN Out(s, EmptyBag, "notRunning")
        ELSE IF nextAgentId = "none"
        THEN Out([s1 EXCEPT !.isSequenceRunning = FALSE], EmptyBag, "done")
        ELSE IF missingId # "none" /\ ~OeHas(cl.localAnalysisResults, missingId)
        THEN IF OeRunnable(cl, missingId)
             THEN LET o == OePwaStart(s1, cl, missingId, "nextPrereq")
                  IN  Out(o.s, o.procs, "prerequisite")
             ELSE Out(OeCannotRun(s1), EmptyBag, "cannotRun")
        ELSE Out(s1, One(OeProc("next", "w800", nextAgentId, cl, "none", FALSE)), "wait800")

\* handleRunSingleAgent (lines 1388-1414)
\* ev: "noTranscript", "requires", or what processWithAgent did
handleRunSingleAgent(s, agentId) ==
    IF s.transcript = "" THEN Out([s EXCEPT !.toast = "noTranscript"], EmptyBag, "noTranscript")
    ELSE IF requiresPreviousAgent[agentId] # "none"
            /\ ~OeHas(s.localAnalysisResults, requiresPreviousAgent[agentId])
    THEN Out([s EXCEPT !.toast = "requires"], EmptyBag, "requires")
    ELSE OePwaStart(s, OeClosure(s), agentId, "single")

\* startAnalysisSequence up to its first await (lines 989-1053)
startAnalysisSequence(s) ==
    [s EXCEPT
        !.showResult = "null",
        !.analyzingAgents = <<>>,
        !.setAnalyzing = TRUE,
        !.localAnalysisResults = OeNoResults,
        !.setResults = TRUE,
        !.agentProgress = OeNoProgress,
        !.hasAnalyzed = FALSE,
        !.isSequenceRunning = TRUE,
        !.isOptimizingTranscript = TRUE]

\* setFinishedAgents(prev => new Set([...prev, agentId]))
OeFinish(s, agentId) ==
    [s EXCEPT !.finishedAgents = SetAdd(s.finishedAgents, agentId), !.setFinished = TRUE]

\* the longContextChunking call returned or threw (lines 1055-1102)
OeSeqChunked(s, result) == OeFinish(OeStoreResult(s, "longContextChunking", result),
                                    "longContextChunking")

\* the loop of startAnalysisSequence from the top of the iteration of agentId to
\* its first progress wait (lines 1113-1154)
OeSeqBegin(s, agentId) ==
    updateAgentProgress(
        IF agentId # "longContextChunking"
        THEN [s EXCEPT !.analyzingAgents = <<agentId>>,
                       !.setAnalyzing = TRUE,
                       !.currentRunningAgent = agentId]
        ELSE [s EXCEPT !.currentRunningAgent = agentId],
        agentId, 25, "loading")

\* after the 300 ms wait of the chunking branch (lines 1106-1110)
OeSeqAfterChunkWait(s) ==
    OeSeqBegin([s EXCEPT
                    !.finishedAgentsArray = Append(s.finishedAgentsArray, "longContextChunking"),
                    !.isOptimizingTranscript = FALSE],
               "longContextChunking")

\* the dummyResult of agentId (lines 1158-1235)
OeDummyResult(cl, agentId) ==
    IF agentId = "needsAnalysis" /\ ~OeHas(cl.localAnalysisResults, "longContextChunking")
    THEN "dummyRaw" ELSE "dummy"

\* the loop from the end of the progress waits to the 1000 ms wait (lines 1158-1265)
OeSeqStore(s, cl, agentId) ==
    LET s1 == updateAgentProgress(
                  OeFinish(OeStoreResult(s, agentId, OeDummyResult(cl, agentId)), agentId),
                  agentId, 100, "success")
    IN  IF agentId # "longContextChunking"
        THEN [s1 EXCEPT !.saved[agentId] = OeDummyResult(cl, agentId), !.showResult = agentId]
        ELSE s1

\* after the 1000 ms wait (lines 1269-1273)
OeSeqRelease(s, agentId) ==
    [s EXCEPT !.analyzingAgents = SetDelete(s.analyzingAgents, agentId), !.setAnalyzing = TRUE]

\* the end of startAnalysisSequence (lines 1276-1285)
OeSeqEnd(s) ==
    [s EXCEPT !.hasAnalyzed = TRUE, !.toast = "sequenceCompleted", !.isSequenceRunning = FALSE]

(***************************************************************************)
(* OpportunityEvaluation: steps                                            *)
(***************************************************************************)
OeRest(p) == oeProcs (-) One(p)

\* a user interaction with the page, or a call of one of its handlers
OeUserStep == /\ mounted = "OpportunityEvaluation"
              /\ oeCalls < OeMaxCalls
              /\ oeCalls' = oeCalls + 1

\* the event of an invocation of runNextAgentInSequence with closure cl
OeRunNextEvent(o, cl, fresh) ==
    OeEvent("runNext", OeNextAgent(cl),
            IF o.ev = "prerequisite" THEN requiresPreviousAgent[OeNextAgent(cl)] ELSE "none",
            IF o.ev = "prerequisite"
            THEN OePrereqStored(OeState, requiresPreviousAgent[OeNextAgent(cl)]) ELSE TRUE,
            o.s.toast,
            IF o.ev = "wait800" THEN OeNextAgent(cl) ELSE "none",
            [isSequenceRunning |-> cl.isSequenceRunning,
             completed |-> OeCompleted(cl.localAnalysisResults)],
            fresh, FALSE)

\* the event of a call of processWithAgent(agentId)
OePwaEvent(ev, o, agentId) ==
    OeEvent(ev, agentId,
            IF o.ev = "started" THEN agentId ELSE "none",
            IF o.ev = "started" THEN OePrereqStored(OeState, agentId) ELSE TRUE,
            o.s.toast, "none", OeSawNothing, TRUE, FALSE)

\* the user uploads or types a transcript (FileUpload, lines 1594-1601)
OeHandleContentChange(content) ==
    /\ OeUploadPanelShown(OeState)
    /\ Len(oeAnalyzingAgents) = 0
    /\ OeUserStep
    /\ OeCommit(OeRender(handleContentChange(OeState, content)), oeProcs,
                OePlainEvent("contentChange", "none", "none"))

\* the user clicks Analyze (lines 1603-1611)
OeStartAnalysisSequence ==
    /\ OeUploadPanelShown(OeState)
    /\ oeTranscript # ""
    /\ Len(oeAnalyzingAgents) = 0
    /\ OeUserStep
    /\ OeCommit(OeRender(startAnalysisSequence(OeState)),
                oeProcs (+) One(OeProc("seq", "chunkCall", "longContextChunking",
                                         OeClosure(OeState), "none", FALSE)),
                OeEvent("analyze", "longContextChunking", "longContextChunking",
                        OePrereqStored(OeState, "longContextChunking"),
                        "none", "none", OeSawNothing, TRUE, FALSE))

\* the user clicks Reset Evaluation (lines 1560-1567)
OeHandleClearData ==
    /\ OeUserStep
    /\ OeCommit(OeRender(handleClearData(OeState)),
                oeProcs (+) One(OeProc("reload", "timer", "none", OeClosure(OeState),
                                         "none", FALSE)),
                OePlainEvent("clearData", "none", "dataReset"))

\* the user clicks View Results on the card of a finished agent; the event keeps
\* in `was` the result that was stored for the agent when the handler began
OeHandleViewResult(agentId) ==
    /\ isDone(OeState, agentId)
    /\ mounted = "OpportunityEvaluation"
    /\ \/ oeCalls < OeMaxCalls
       \/ oeCalls < OeMaxCalls + OeMaxViews /\ oeProcs = EmptyBag
    /\ oeCalls' = oeCalls + 1
    /\ OeCommit(OeRender(handleViewResult(OeState, OeClosure(OeState), agentId)), oeProcs,
                OePlainEvent("viewResult", agentId, "none")
                    @@ [was |-> oeLocalAnalysisResults[agentId]])

\* the page is loaded again: what was pending is gone with the old page
OeLoadPage ==
    OeCommit(OeMount(oeStorage, oeSaved), EmptyBag, OePlainEvent("reload", "none", "none"))

\* the user reloads the page
OeReload ==
    /\ OeUserStep
    /\ OeLoadPage

\* the 500 ms timer of handleClearData (lines 1382-1384)
OeReloadTimer(p) ==
    /\ p.kind = "reload"
    /\ UNCHANGED oeCalls
    /\ OeLoadPage

\* stopAnalysisSequence is called (lines 1296-1300). Nothing is cancelled; the
\* runs of startAnalysisSequence that are suspended at the time are marked
\* (ret "stopped") for the record only.
OeStopAnalysisSequence ==
    /\ OeUserStep
    /\ LET mark(p) == IF p.kind = "seq" THEN [p EXCEPT !.ret = "stopped"] ELSE p
           marked == {mark(p) : p \in BagToSet(oeProcs)}
       IN  OeCommit(OeRender([OeState EXCEPT !.isSequenceRunning = FALSE,
                                             !.toast = "sequenceStopped"]),
                    [q \in marked |->
                        BagCardinality([p \in {x \in BagToSet(oeProcs) : mark(x) = q}
                                           |-> oeProcs[p]])],
                    OePlainEvent("stop", "none", "sequenceStopped"))

\* runNextAgentInSequence is called
OeRunNextAgentInSequence ==
    /\ OeUserStep
    /\ LET o == OeRunNextBody(OeState, OeClosure(OeState))
       IN  OeCommit(OeRender(o.s), oeProcs (+) o.procs,
                    OeRunNextEvent(o, OeClosure(OeState), TRUE))

\* handleRunSingleAgent(agentId) is called
OeHandleRunSingleAgent(agentId) ==
    /\ OeUserStep
    /\ LET o == handleRunSingleAgent(OeState, agentId)
       IN  OeCommit(OeRender(o.s), oeProcs (+) o.procs, OePwaEvent("runSingle", o, agentId))

\* processWithLongContextChunking returns (lines 1055-1103)
OeChunkingResolves(p) ==
    /\ p.kind = "seq" /\ p.pc = "chunkCall"
    /\ UNCHANGED oeCalls
    /\ OeCommit(OeRender(OeSeqChunked(OeState, "real")),
                OeRest(p) (+) One([p EXCEPT !.pc = "chunkWait"]),
                OePlainEvent("chunkingResolves", "longContextChunking", "none"))

\* processWithLongContextChunking throws (lines 1072-1103)
OeChunkingRejects(p) ==
    /\ p.kind = "seq" /\ p.pc = "chunkCall"
    /\ UNCHANGED oeCalls
    /\ OeCommit(OeRender(OeSeqChunked(OeState, "fallback")),
                OeRest(p) (+) One([p EXCEPT !.pc = "chunkWait", !.failed = TRUE]),
                OeEvent("chunkingRejects", "longContextChunking", "none", TRUE, "none",
                        "none", OeSawNothing, TRUE, TRUE))

\* the 300 ms wait of the chunking branch ends (lines 1103-1154)
OeSeqChunkWait(p) ==
    /\ p.kind = "seq" /\ p.pc = "chunkWait"
    /\ UNCHANGED oeCalls
    /\ OeCommit(OeRender(OeSeqAfterChunkWait(OeState)),
                OeRest(p) (+) One([p EXCEPT !.pc = "p25"]),
                OeEvent("seqProgress", p.agent, "none", TRUE, "none", "none",
                        OeSawNothing, TRUE, p.failed))

\* the progress shown after a progress wait of the loop, and where the loop is then
OeSeqAfterWait(pc) ==
    CASE pc = "p25" -> [progress |-> 50, pc |-> "p50"]
      [] pc = "p50" -> [progress |-> 75, pc |-> "p75"]
      [] pc = "p75" -> [progress |-> 100, pc |-> "p100"]

\* a progress wait of the loop ends (lines 1148-1155)
OeSeqProgress(p) ==
    /\ p.kind = "seq" /\ p.pc \in {"p25", "p50", "p75"}
    /\ UNCHANGED oeCalls
    /\ OeCommit(OeRender(updateAgentProgress(OeState, p.agent, OeSeqAfterWait(p.pc).progress, "loading")),
                OeRest(p) (+) One([p EXCEPT !.pc = OeSeqAfterWait(p.pc).pc]),
                OeEvent("seqProgress", p.agent, "none", TRUE, "none", "none",
                        OeSawNothing, TRUE, p.failed))

\* the last progress wait ends: the result is stored (lines 1155-1265)
OeSeqStored(p) ==
    /\ p.kind = "seq" /\ p.pc = "p100"
    /\ UNCHANGED oeCalls
    /\ OeCommit(OeRender(OeSeqStore(OeState, p.cl, p.agent)),
                OeRest(p) (+) One([p EXCEPT !.pc = "stored"]),
                OeEvent("seqStored", p.agent, "none", TRUE, "none", "none",
                        OeSawNothing, TRUE, p.failed))

\* the 1000 ms wait ends: the next agent begins, or the sequence ends
OeSeqNext(p) ==
    /\ p.kind = "seq" /\ p.pc = "stored"
    /\ UNCHANGED oeCalls
    /\ IF OeIndexOf(p.agent) < Len(OE_AGENT_SEQUENCE)
       THEN LET nextId == OE_AGENT_SEQUENCE[OeIndexOf(p.agent) + 1]
            IN  OeCommit(OeRender(OeSeqBegin(OeSeqRelease(OeState, p.agent), nextId)),
                         OeRest(p) (+) One([p EXCEPT !.pc = "p25", !.agent = nextId]),
                         OeEvent("seqNext", nextId, nextId, OePrereqStored(OeState, nextId),
                                 "none", "none", OeSawNothing, TRUE, p.failed))
       ELSE OeCommit(OeRender(OeSeqEnd(OeSeqRelease(OeState, p.agent))),
                     OeRest(p),
                     OeEvent("seqEnd", p.agent, "none", TRUE, "sequenceCompleted", "none",
                             OeSawNothing, TRUE, p.failed))

\* the progress shown after a wait of processWithAgent, and where it is then
OePwaAfterWait(pc) ==
    CASE pc = "w300" -> [progress |-> 25, pc |-> "q25"]
      [] pc = "q25" -> [progress |-> 50, pc |-> "q50"]
      [] pc = "q50" -> [progress |-> 75, pc |-> "q75"]

\* a wait of the progress loop of processWithAgent ends (lines 588-595)
OePwaStep(p) ==
    /\ p.kind = "pwa" /\ p.pc \in {"w300", "q25", "q50"}
    /\ UNCHANGED oeCalls
    /\ OeCommit(OeRender(updateAgentProgress(OeState, p.agent, OePwaAfterWait(p.pc).progress, "loading")),
                OeRest(p) (+) One([p EXCEPT !.pc = OePwaAfterWait(p.pc).pc]),
                OePlainEvent("pwaProgress", p.agent, "none"))

\* processWithAgent returns its result, and its caller goes on: after a
\* prerequisite runNextAgentInSequence calls itself (lines 823-828), after the
\* next agent it waits 500 ms (line 849)
OePwaComplete(p) ==
    /\ p.kind = "pwa" /\ p.pc = "q75"
    /\ UNCHANGED oeCalls
    /\ LET o == OePwaFinish(OeState, p.cl, p.agent)
           n == OeRunNextBody(o.s, p.cl)
       IN  CASE p.ret = "single" ->
                    OeCommit(OeRender(o.s), OeRest(p) (+) o.procs,
                             OePlainEvent("pwaComplete", p.agent, "none"))
             [] p.ret = "nextPrereq" ->
                    OeCommit(OeRender(n.s), OeRest(p) (+) o.procs (+) n.procs,
                             OeRunNextEvent(n, p.cl, FALSE))
             [] p.ret = "nextMain" ->
                    OeCommit(OeRender(o.s),
                             OeRest(p) (+) o.procs
                                (+) One(OeProc("next", "n500", p.agent, p.cl, "none", FALSE)),
                             OePlainEvent("pwaComplete", p.agent, "none"))

\* the 800 ms wait of runNextAgentInSequence ends (lines 841-849)
OeNextWait800(p) ==
    /\ p.kind = "next" /\ p.pc = "w800"
    /\ UNCHANGED oeCalls
    /\ LET o == OePwaStart(OeState, p.cl, p.agent, "nextMain")
       IN  OeCommit(OeRender(o.s),
                    IF o.ev = "started" THEN OeRest(p) (+) o.procs
                    ELSE OeRest(p) (+) o.procs (+) One([p EXCEPT !.pc = "n500"]),
                    OePwaEvent("runNextStarts", o, p.agent))

\* the 500 ms wait of runNextAgentInSequence ends: it calls itself (lines 849-854)
OeNextWait500(p) ==
    /\ p.kind = "next" /\ p.pc = "n500"
    /\ UNCHANGED oeCalls
    /\ LET n == OeRunNextBody(OeState, p.cl)
       IN  OeCommit(OeRender(n.s), OeRest(p) (+) n.procs, OeRunNextEvent(n, p.cl, FALSE))

\* the 50 ms timer of processWithAgent fires
OeTimer50(p) ==
    /\ p.kind = "t50"
    /\ UNCHANGED oeCalls
    /\ OeCommit(OeRender(OeTimer50Body(OeState, p.cl, p.agent)), OeRest(p),
                OePlainEvent("timer50", p.agent, "none"))

\* the 300 ms timer of cleanupAgentState fires
OeCleanup300(p) ==
    /\ p.kind = "cleanup300"
    /\ UNCHANGED oeCalls
    /\ LET o == OeCleanup300Body(OeState, p.cl, p.agent)
       IN  OeCommit(OeRender(o.s), OeRest(p) (+) o.procs,
                    OePlainEvent("cleanup300", p.agent, "none"))

\* the 100 ms timer of cleanupAgentState fires
OeCleanup100(p) ==
    /\ p.kind = "cleanup100"
    /\ UNCHANGED oeCalls
    /\ OeCommit(OeRender(OeCleanup100Body(OeState, p.cl)), OeRest(p),
                OePlainEvent("cleanup100", p.agent, "none"))

\* the page on an empty localStorage; the API key of Settings does not change
OeIdle ==
    /\ oeTranscript = OeInitialState.transcript
    /\ oeAnalyzingAgents = OeInitialState.analyzingAgents
    /\ oeAnalyzingAgentsArray = OeInitialState.analyzingAgentsArray
    /\ oeHasAnalyzed = OeInitialState.hasAnalyzed
    /\ oeLocalAnalysisResults = OeInitialState.localAnalysisResults
    /\ oeAgentProgress = OeInitialState.agentProgress
    /\ oeShowResult = OeInitialState.showResult
    /\ oeUserHasSelectedView = OeInitialState.userHasSelectedView
    /\ oeIsOptimizingTranscript = OeInitialState.isOptimizingTranscript
    /\ oeFinishedAgents = OeInitialState.finishedAgents
    /\ oeFinishedAgentsArray = OeInitialState.finishedAgentsArray
    /\ oeIsSequenceRunning = OeInitialState.isSequenceRunning
    /\ oeCurrentRunningAgent = OeInitialState.currentRunningAgent
    /\ oeSequenceCompletedRef = OeInitialState.sequenceCompletedRef
    /\ oeContextChunkingFixedRef = OeInitialState.contextChunkingFixedRef
    /\ oeSaved = OeInitialState.saved
    /\ oeStorage = OeMirror(OeInitialState)
    /\ oeProcs = EmptyBag
    /\ oeLast = OePlainEvent("init", "none", "none")
    /\ oeCalls = 0

OeInit ==
    /\ OeIdle
    /\ oeApiKey \in BOOLEAN

OeNext ==
    \/ \E content \in OeTranscripts : OeHandleContentChange(content)
    \/ OeStartAnalysisSequence
    \/ OeHandleClearData
    \/ \E agentId \in OeVisibleAgents : OeHandleViewResult(agentId)
    \/ OeReload
    \/ OeRunNextAgentInSequence
    \/ OeStopAnalysisSequence
    \/ \E agentId \in OeAgents : OeHandleRunSingleAgent(agentId)
    \/ \E p \in BagToSet(oeProcs) : OeReloadTimer(p)
    \/ \E p \in BagToSet(oeProcs) : OeChunkingResolves(p)
    \/ \E p \in BagToSet(oeProcs) : OeChunkingRejects(p)
    \/ \E p \in BagToSet(oeProcs) : OeSeqChunkWait(p)
    \/ \E p \in BagToSet(oeProcs) : OeSeqProgress(p)
    \/ \E p \in BagToSet(oeProcs) : OeSeqStored(p)
    \/ \E p \in BagToSet(oeProcs) : OeSeqNext(p)
    \/ \E p \in BagToSet(oeProcs) : OePwaStep(p)
    \/ \E p \in BagToSet(oeProcs) : OePwaComplete(p)
    \/ \E p \in BagToSet(oeProcs) : OeNextWait800(p)
    \/ \E p \in BagToSet(oeProcs) : OeNextWait500(p)
    \/ \E p \in BagToSet(oeProcs) : OeTimer50(p)
    \/ \E p \in BagToSet(oeProcs) : OeCleanup300(p)
    \/ \E p \in BagToSet(oeProcs) : OeCleanup100(p)

(***************************************************************************)
(* CustomerProblemAnalyst (OpportunityEvaluation.jsx, lines 2808-3966)     *)
(***************************************************************************)
CPA_AGENT_SEQUENCE ==
    <<"jtbd", "jtbdGains", "painExtractor", "problemAwareness", "finalReport">>

CpaSequenceAgents == {CPA_AGENT_SEQUENCE[i] : i \in 1..Len(CPA_AGENT_SEQUENCE)}

\* the agents handleRunAgent is called with
CpaAgents == {"longContextChunking"} \cup CpaSequenceAgents

\* AGENT_SEQUENCE.indexOf(agentId), counted from 1; 0 when it is not there
CpaIndexOf(agentId) ==
    IF agentId \in CpaSequenceAgents
    THEN CHOOSE i \in 1..Len(CPA_AGENT_SEQUENCE) : CPA_AGENT_SEQUENCE[i] = agentId
    ELSE 0

\* localAnalysisResults: one entry per agent and the 'transcript' entry;
\* "none" stands for a key the object does not have
CpaNoResults == [k \in CpaAgents \cup {"transcript"} |-> "none"]

CpaHas(results, id) == IF id \in CpaAgents THEN results[id] # "none" ELSE FALSE

\* agentProgress; -1 stands for a key the object does not have
CpaNoProgress == [a \in CpaAgents |-> -1]

\* the state of the component as a handler reads and queues it. The set*
\* fields tell that the handler gave the object a new identity, toast and
\* toastNames what it showed.
CpaState ==
    [transcript |-> cpaTranscript,
     analyzingAgents |-> cpaAnalyzingAgents,
     hasAnalyzed |-> cpaHasAnalyzed,
     localAnalysisResults |-> cpaLocalAnalysisResults,
     agentProgress |-> cpaAgentProgress,
     showResult |-> cpaShowResult,
     userHasSelectedView |-> cpaUserHasSelectedView,
     lastViewedResult |-> cpaLastViewedResult,
     currentAnalysisIndex |-> cpaCurrentAnalysisIndex,
     isSequenceRunning |-> cpaIsSequenceRunning,
     handleRunAgentRef |-> cpaHandleRunAgentRef,
     setAnalyzing |-> FALSE,
     setResults |-> FALSE,
     setProgress |-> FALSE,
     toast |-> "none",
     toastNames |-> "none"]

\* what handleAnalysisComplete closes over (lines 2941-3059)
CpaHacOf(s) ==
    [transcript |-> s.transcript,
     agentProgress |-> s.agentProgress,
     showResult |-> s.showResult,
     userHasSelectedView |-> s.userHasSelectedView]

\* what handleRunAgent closes over (lines 3128-3699), handleAnalysisComplete included
CpaHraOf(s, hac) ==
    [transcript |-> s.transcript,
     analyzingAgents |-> s.analyzingAgents,
     localAnalysisResults |-> s.localAnalysisResults,
     isSequenceRunning |-> s.isSequenceRunning,
     hac |-> hac]

\* the state restoration effect (lines 3750-3811); 'analysisResults' of
\* localStorage holds what localAnalysisResults holds
CpaRestorationEffect(cur) ==
    LET storedResults == cur.localAnalysisResults
        completedAnalyses == {a \in CpaAgents : storedResults[a] # "none"}
        validAgents == completedAnalyses \cap CpaSequenceAgents
        lastCompletedAgent ==
            CPA_AGENT_SEQUENCE[CHOOSE i \in 1..Len(CPA_AGENT_SEQUENCE) :
                /\ CPA_AGENT_SEQUENCE[i] \in validAgents
                /\ \A j \in 1..Len(CPA_AGENT_SEQUENCE) :
                        CPA_AGENT_SEQUENCE[j] \in validAgents => j <= i]
        keeps == /\ cur.lastViewedResult \notin {"null", "longContextChunking"}
                 /\ CpaHas(storedResults, cur.lastViewedResult)
        resultToShow == IF keeps THEN cur.lastViewedResult
                        ELSE IF validAgents # {} THEN lastCompletedAgent
                        ELSE "null"
        s1 == [cur EXCEPT !.hasAnalyzed = TRUE]
        s2 == IF ~keeps /\ validAgents # {}
              THEN [s1 EXCEPT !.lastViewedResult = lastCompletedAgent] ELSE s1
        s3 == IF resultToShow # "null"
              THEN [s2 EXCEPT !.showResult = resultToShow,
                              !.userHasSelectedView =
                                  IF resultToShow = cur.lastViewedResult
                                  THEN TRUE ELSE s2.userHasSelectedView]
              ELSE s2
    IN  IF completedAnalyses = {} THEN cur
        ELSE IF storedResults["transcript"] \notin {"none", ""}
        THEN [s3 EXCEPT !.transcript = storedResults["transcript"]]
        ELSE s3

\* the sequence completion effect (lines 3815-3833)
CpaSequenceEffect(cur) ==
    IF ~cur.isSequenceRunning \/ cur.transcript = "" \/ ~oeApiKey THEN cur
    ELSE IF cur.currentAnalysisIndex \in 0..(Len(CPA_AGENT_SEQUENCE) - 1) THEN cur
    ELSE [cur EXCEPT !.isSequenceRunning = FALSE,
                     !.hasAnalyzed = TRUE,
                     !.showResult = IF cur.showResult = "null" /\ ~cur.userHasSelectedView
                                    THEN CPA_AGENT_SEQUENCE[Len(CPA_AGENT_SEQUENCE)]
                                    ELSE cur.showResult]

\* renders and runs the effects until no effect changes the state: the
\* restoration effect runs when lastViewedResult is not what the render before had
RECURSIVE CpaSettle(_, _)
CpaSettle(prev, cur) ==
    LET next == CpaSequenceEffect(IF cur.lastViewedResult # prev.lastViewedResult
                                  THEN CpaRestorationEffect(cur) ELSE cur)
    IN  IF next = cur THEN cur ELSE CpaSettle(cur, next)

CpaRender(s) == CpaSettle(CpaState, s)

\* isDone (lines 3061-3102)
CpaIsDone(s, agentId) ==
    \/ CpaHas(s.localAnalysisResults, agentId)
    \/ s.agentProgress[agentId] = 100
    \/ \E a \in CpaAgents :
        /\ requiresPreviousAgent[a] = agentId
        /\ (CpaHas(s.localAnalysisResults, a) \/ s.agentProgress[a] = 100)

\* the upload panel is rendered in place of the results (lines 3934-3960)
CpaUploadPanelShown(s) == ~(s.showResult # "null" /\ s.hasAnalyzed)

\* an awaited external call or wait of handleRunAgent(agent), made by the
\* callback with closure cl
CpaProc(kind, pc, agent, cl) == [kind |-> kind, pc |-> pc, agent |-> agent, cl |-> cl]

\* what a step did. did is the outcome of the call of handleRunAgent(agent) in
\* it, direct that the call was made from outside the component's own sequence;
\* admitted: the call got past the guards of lines 3135-3164; missing: the
\* prerequisite the registry declares for agent had no stored result when the
\* step began; scheduled: the calls and waits the step left pending.
CpaEvent(ev, agent, did, direct, admitted, missing, toast, toastNames, scheduled) ==
    [ev |-> ev, agent |-> agent, did |-> did, direct |-> direct, admitted |-> admitted,
     missing |-> missing, toast |-> toast, toastNames |-> toastNames,
     scheduled |-> scheduled]

CpaPlainEvent(ev, agent, s) ==
    CpaEvent(ev, agent, "none", FALSE, FALSE, FALSE, s.toast, s.toastNames, 0)

\* commits the rendered state s of a step. handleAnalysisComplete is made anew
\* when agentProgress is a new object, handleRunAgent when transcript,
\* analyzingAgents, localAnalysisResults or handleAnalysisComplete is.
CpaCommit(s, procs, last) ==
    LET hac == IF s.setProgress THEN CpaHacOf(s) ELSE cpaHac
        hra == IF \/ s.setProgress \/ s.setAnalyzing \/ s.setResults
                  \/ s.transcript # cpaTranscript
               THEN CpaHraOf(s, hac) ELSE cpaHra
    IN  /\ BagCardinality(procs) <= CpaMaxProcs
        /\ cpaTranscript' = s.transcript
        /\ cpaAnalyzingAgents' = s.analyzingAgents
        /\ cpaHasAnalyzed' = s.hasAnalyzed
        /\ cpaLocalAnalysisResults' = s.localAnalysisResults
        /\ cpaAgentProgress' = s.agentProgress
        /\ cpaShowResult' = s.showResult
        /\ cpaUserHasSelectedView' = s.userHasSelectedView
        /\ cpaLastViewedResult' = s.lastViewedResult
        /\ cpaCurrentAnalysisIndex' = s.currentAnalysisIndex
        /\ cpaIsSequenceRunning' = s.isSequenceRunning
        /\ cpaHandleRunAgentRef' = s.handleRunAgentRef
        /\ cpaHac' = hac
        /\ cpaHra' = hra
        /\ cpaProcs' = procs
        /\ cpaLast' = last
        /\ UNCHANGED otherThanCpa

(***************************************************************************)
(* CustomerProblemAnalyst: handlers                                        *)
(***************************************************************************)
\* setAgentProgress(prev => ({...prev, [agentId]: progress}))
CpaUpdateProgress(s, agentId, progress) ==
    [s EXCEPT !.agentProgress[agentId] = progress, !.setProgress = TRUE]

\* clearAllState (lines 3701-3734)
CpaClearAllState(s) ==
    [s EXCEPT !.localAnalysisResults = CpaNoResults, !.setResults = TRUE,
              !.agentProgress = CpaNoProgress, !.setProgress = TRUE,
              !.transcript = "",
              !.analyzingAgents = <<>>, !.setAnalyzing = TRUE,
              !.hasAnalyzed = FALSE,
              !.showResult = "null",
              !.lastViewedResult = "null",
              !.userHasSelectedView = FALSE]

\* the catch of handleRunAgent (lines 3671-3698)
CpaCatch(s, agentId, toast, names) ==
    [CpaUpdateProgress(s, agentId, 0) EXCEPT
        !.analyzingAgents = SetDelete(s.analyzingAgents, agentId),
        !.setAnalyzing = TRUE,
        !.toast = toast,
        !.toastNames = names]

\* the call gets past the guards that come before the try (lines 3135-3164).
\* ref is stateRef.current, cl the closure of the callback, s the state queued
\* so far, which is what localStorage holds.
CpaAdmitted(s, cl, ref, agentId) ==
    /\ ref.isSequenceRunning \/ s.localAnalysisResults = cl.localAnalysisResults
    /\ cl.transcript # ""
    /\ oeApiKey
    /\ ~SetHas(cl.analyzingAgents, agentId)

\* the prerequisite check finds a result (lines 3172-3200)
CpaPrerequisiteFound(s, cl, ref, agentId) ==
    \/ requiresPreviousAgent[agentId] = "none"
    \/ CpaHas(ref.localAnalysisResults, requiresPreviousAgent[agentId])
    \/ CpaHas(s.localAnalysisResults, requiresPreviousAgent[agentId])
    \/ CpaHas(cl.localAnalysisResults, requiresPreviousAgent[agentId])

\* handleRunAgent up to its first await (lines 3128-3699).
\* ev: "verifyFailed", "noTranscript", "noApiKey", "alreadyRunning",
\* "missingPrerequisite", "agentRunning", "started"
CpaHandleRunAgentBody(s0, cl, ref, agentId) ==
    LET s == [s0 EXCEPT !.handleRunAgentRef = <<cl>>]
    IN  IF ~ref.isSequenceRunning /\ s.localAnalysisResults # cl.localAnalysisResults
        THEN Out([s EXCEPT !.setResults = TRUE], EmptyBag, "verifyFailed")
        ELSE IF cl.transcript = ""
        THEN Out([s EXCEPT !.toast = "noTranscript"], EmptyBag, "noTranscript")
        ELSE IF ~oeApiKey
        THEN Out([s EXCEPT !.toast = "noApiKey"], EmptyBag, "noApiKey")
        ELSE IF SetHas(cl.analyzingAgents, agentId)
        THEN Out(s, EmptyBag, "alreadyRunning")
        ELSE IF ~CpaPrerequisiteFound(s, cl, ref, agentId)
        THEN Out(CpaCatch(s, agentId, "missingRequiredAnalysis",
                             requiresPreviousAgent[agentId]),
                    EmptyBag, "missingPrerequisite")
        ELSE IF ~cl.isSequenceRunning /\ Len(cl.analyzingAgents) > 0
        THEN Out(CpaCatch(s, agentId, "waitForCurrentAnalysis", "none"),
                    EmptyBag, "agentRunning")
        ELSE Out(CpaUpdateProgress(
                        [s EXCEPT !.analyzingAgents = SetAdd(s.analyzingAgents, agentId),
                                  !.setAnalyzing = TRUE],
                        agentId,
                        IF agentId = "longContextChunking" THEN 10 ELSE 5),
                    One(CpaProc(IF agentId = "longContextChunking" THEN "chunk" ELSE "call",
                                   IF agentId = "longContextChunking" THEN "c10" ELSE "called",
                                   agentId, cl)),
                    "started")

\* the progress handleAnalysisComplete writes: agentId and the chain of its
\* prerequisites at 100 (lines 2988-3002)
RECURSIVE CpaChainProgress(_, _)
CpaChainProgress(progress, agentId) ==
    IF agentId = "none" THEN progress
    ELSE CpaChainProgress(IF agentId \in CpaAgents
                          THEN [progress EXCEPT ![agentId] = 100] ELSE progress,
                          requiresPreviousAgent[agentId])

\* handleAnalysisComplete (lines 2941-3059), hac being its closure, with the
\* call of handleRunAgentRef.current it makes for the next agent of the sequence
CpaHandleAnalysisComplete(s, hac, ref, agentId) ==
    LET s1 == [s EXCEPT
                  !.analyzingAgents = SetDelete(s.analyzingAgents, agentId),
                  !.setAnalyzing = TRUE,
                  !.localAnalysisResults =
                      [s.localAnalysisResults EXCEPT ![agentId] = "real",
                                                     !["transcript"] = hac.transcript],
                  !.setResults = TRUE,
                  !.agentProgress = CpaChainProgress(hac.agentProgress, agentId),
                  !.setProgress = TRUE,
                  !.showResult =
                      IF /\ hac.showResult = "null" /\ ~hac.userHasSelectedView
                         /\ agentId # "longContextChunking"
                      THEN agentId ELSE s.showResult]
        currentIndex == CpaIndexOf(agentId)
        s2 == [s1 EXCEPT !.currentAnalysisIndex = currentIndex]
    IN  IF currentIndex >= 1 /\ currentIndex < Len(CPA_AGENT_SEQUENCE)
        THEN IF s.handleRunAgentRef # <<>>
             THEN CpaHandleRunAgentBody(s2, s.handleRunAgentRef[1], ref,
                                        CPA_AGENT_SEQUENCE[currentIndex + 1])
             ELSE Out(s2, EmptyBag, "none")
        ELSE Out(s1, EmptyBag, "none")

\* handleAnalyze (lines 3835-3878); hra is the handleRunAgent it closes over
CpaHandleAnalyzeBody(s, hra, ref) ==
    IF ~oeApiKey THEN Out([s EXCEPT !.toast = "noApiKey"], EmptyBag, "none")
    ELSE CpaHandleRunAgentBody(
            [CpaUpdateProgress(CpaClearAllState(s), CPA_AGENT_SEQUENCE[1], 5) EXCEPT
                !.currentAnalysisIndex = 0,
                !.isSequenceRunning = TRUE,
                !.userHasSelectedView = FALSE,
                !.analyzingAgents = <<CPA_AGENT_SEQUENCE[1]>>],
            hra, ref, CPA_AGENT_SEQUENCE[1])

(***************************************************************************)
(* CustomerProblemAnalyst: steps                                           *)
(***************************************************************************)
\* a user interaction with the page, or a call of one of its handlers
CpaUserStep == /\ mounted = "CustomerProblemAnalyst"
               /\ cpaCalls < CpaMaxCalls
               /\ cpaCalls' = cpaCalls + 1

\* the event of a call of handleRunAgent(agentId) whose outcome is o, made with
\* closure cl on the queued state s
CpaRunAgentEvent(ev, o, s, cl, agentId, direct) ==
    CpaEvent(ev, agentId, o.ev, direct,
             CpaAdmitted(s, cl, CpaState, agentId),
             /\ requiresPreviousAgent[agentId] # "none"
             /\ ~CpaHas(cpaLocalAnalysisResults, requiresPreviousAgent[agentId]),
             o.s.toast, o.s.toastNames, BagCardinality(o.procs))

\* the user uploads or types a transcript (FileUpload, lines 3941-3945):
\* handleContentChange (lines 2924-2932)
CpaHandleContentChange(content) ==
    /\ CpaUploadPanelShown(CpaState)
    /\ Len(cpaAnalyzingAgents) = 0
    /\ CpaUserStep
    /\ LET s == CpaRender([CpaState EXCEPT
                        !.analyzingAgents = <<>>, !.setAnalyzing = TRUE,
                        !.agentProgress = CpaNoProgress, !.setProgress = TRUE,
                        !.localAnalysisResults = CpaNoResults, !.setResults = TRUE,
                        !.hasAnalyzed = FALSE,
                        !.transcript = content])
       IN  CpaCommit(s, cpaProcs, CpaPlainEvent("contentChange", "none", s))

\* the user clicks Analyze Transcript (lines 3946-3954)
CpaHandleAnalyze ==
    /\ CpaUploadPanelShown(CpaState)
    /\ cpaTranscript # ""
    /\ Len(cpaAnalyzingAgents) = 0
    /\ CpaUserStep
    /\ LET o == CpaHandleAnalyzeBody(CpaState, cpaHra, CpaState)
       IN  CpaCommit(CpaRender(o.s), cpaProcs (+) o.procs,
                     IF oeApiKey
                     THEN CpaRunAgentEvent("analyze", o, CpaClearAllState(CpaState), cpaHra,
                                           CPA_AGENT_SEQUENCE[1], FALSE)
                     ELSE CpaPlainEvent("analyze", "none", o.s))

\* the user clicks Reset Analysis: handleClearData (lines 3736-3739)
CpaHandleClearData ==
    /\ CpaUserStep
    /\ LET s == CpaRender([CpaClearAllState(CpaState) EXCEPT !.toast = "dataReset"])
       IN  CpaCommit(s, cpaProcs, CpaPlainEvent("clearData", "none", s))

\* the user clicks View Results on the card of a finished agent:
\* handleViewResults (lines 3884-3893)
CpaHandleViewResults(agentId) ==
    /\ CpaIsDone(CpaState, agentId)
    /\ CpaUserStep
    /\ LET s == CpaRender([CpaState EXCEPT !.showResult = agentId,
                                           !.lastViewedResult = agentId,
                                           !.userHasSelectedView = TRUE])
       IN  CpaCommit(s, cpaProcs, CpaPlainEvent("viewResults", agentId, s))

\* handleRunAgent(agentId) is called directly
CpaHandleRunAgent(agentId) ==
    /\ CpaUserStep
    /\ LET o == CpaHandleRunAgentBody(CpaState, cpaHra, CpaState, agentId)
       IN  CpaCommit(CpaRender(o.s), cpaProcs (+) o.procs,
                     CpaRunAgentEvent("runAgent", o, CpaState, cpaHra, agentId, TRUE))

\* the progress shown after a 300 ms wait of the longContextChunking case, and
\* where the case is then (lines 3230-3249)
CpaChunkAfterWait(pc) ==
    CASE pc = "c10" -> [progress |-> 30, pc |-> "c30"]
      [] pc = "c30" -> [progress |-> 60, pc |-> "c60"]
      [] pc = "c60" -> [progress |-> 90, pc |-> "c90"]

\* a 300 ms wait of the longContextChunking case ends
CpaChunkStep(p) ==
    /\ p.kind = "chunk"
    /\ p.pc # "c90"
    /\ UNCHANGED cpaCalls
    /\ LET s == CpaRender(CpaUpdateProgress(CpaState, p.agent, CpaChunkAfterWait(p.pc).progress))
       IN  CpaCommit(s, (cpaProcs (-) One(p)) (+) One([p EXCEPT !.pc = CpaChunkAfterWait(p.pc).pc]),
                     CpaPlainEvent("chunkStep", p.agent, s))

\* the last wait of the longContextChunking case ends: the case completes and
\* handleAnalysisComplete runs (lines 3241-3248, 3668)
CpaChunkComplete(p) ==
    /\ p.kind = "chunk"
    /\ p.pc = "c90"
    /\ UNCHANGED cpaCalls
    /\ LET o == CpaHandleAnalysisComplete(CpaUpdateProgress(CpaState, p.agent, 100),
                                          p.cl.hac, CpaState, p.agent)
       IN  CpaCommit(CpaRender(o.s), (cpaProcs (-) One(p)) (+) o.procs,
                     CpaPlainEvent("complete", p.agent, o.s))

\* the external analysis function reports progress through updateProgress
CpaCallProgress(p) ==
    /\ p.kind = "call"
    /\ p.pc = "called"
    /\ UNCHANGED cpaCalls
    /\ LET s == CpaRender(CpaUpdateProgress(CpaState, p.agent, 50))
       IN  CpaCommit(s, (cpaProcs (-) One(p)) (+) One([p EXCEPT !.pc = "progressed"]),
                     CpaPlainEvent("progress", p.agent, s))

\* the external analysis function returns: handleAnalysisComplete runs and
\* calls handleRunAgent for the next agent of AGENT_SEQUENCE (line 3668)
CpaCallResolves(p) ==
    /\ p.kind = "call"
    /\ UNCHANGED cpaCalls
    /\ LET o == CpaHandleAnalysisComplete(CpaState, p.cl.hac, CpaState, p.agent)
           next == IF CpaIndexOf(p.agent) < Len(CPA_AGENT_SEQUENCE)
                   THEN CPA_AGENT_SEQUENCE[CpaIndexOf(p.agent) + 1] ELSE "none"
       IN  CpaCommit(CpaRender(o.s), (cpaProcs (-) One(p)) (+) o.procs,
                     IF next # "none"
                     THEN CpaRunAgentEvent("resolves", o, o.s, cpaHandleRunAgentRef[1],
                                           next, FALSE)
                     ELSE CpaPlainEvent("resolves", p.agent, o.s))

\* the external analysis function throws: the catch of handleRunAgent runs
CpaCallRejects(p) ==
    /\ p.kind = "call"
    /\ UNCHANGED cpaCalls
    /\ LET s == CpaRender(CpaCatch(CpaState, p.agent, "analysisFailed", "none"))
       IN  CpaCommit(s, (cpaProcs (-) One(p)), CpaPlainEvent("rejects", p.agent, s))

\* the page as it is first loaded, localStorage being empty
CpaIdle ==
    /\ cpaTranscript = ""
    /\ cpaAnalyzingAgents = <<>>
    /\ cpaHasAnalyzed = FALSE
    /\ cpaLocalAnalysisResults = CpaNoResults
    /\ cpaAgentProgress = CpaNoProgress
    /\ cpaShowResult = "null"
    /\ cpaUserHasSelectedView = FALSE
    /\ cpaLastViewedResult = "null"
    /\ cpaCurrentAnalysisIndex = 0
    /\ cpaIsSequenceRunning = FALSE
    /\ cpaHac = [transcript |-> "", agentProgress |-> CpaNoProgress,
                 showResult |-> "null", userHasSelectedView |-> FALSE]
    /\ cpaHra = [transcript |-> "", analyzingAgents |-> <<>>,
                 localAnalysisResults |-> CpaNoResults, isSequenceRunning |-> FALSE,
                 hac |-> [transcript |-> "", agentProgress |-> CpaNoProgress,
                          showResult |-> "null", userHasSelectedView |-> FALSE]]
    /\ cpaHandleRunAgentRef = <<>>
    /\ cpaProcs = EmptyBag
    /\ cpaLast = CpaEvent("none", "none", "none", FALSE, FALSE, FALSE, "none", "none", 0)
    /\ cpaCalls = 0

CpaNext ==
    \/ \E content \in OeTranscripts : CpaHandleContentChange(content)
    \/ CpaHandleAnalyze
    \/ CpaHandleClearData
    \/ \E agentId \in CpaSequenceAgents : CpaHandleViewResults(agentId)
    \/ \E agentId \in CpaAgents : CpaHandleRunAgent(agentId)
    \/ \E p \in BagToSet(cpaProcs) : CpaChunkStep(p)
    \/ \E p \in BagToSet(cpaProcs) : CpaChunkComplete(p)
    \/ \E p \in BagToSet(cpaProcs) : CpaCallProgress(p)
    \/ \E p \in BagToSet(cpaProcs) : CpaCallResolves(p)
    \/ \E p \in BagToSet(cpaProcs) : CpaCallRejects(p)

(***************************************************************************)
(* Specifications: one per page, the other pages not being used, and one   *)
(* for the two components of OpportunityEvaluation.jsx, of which a         *)
(* behaviour mounts one                                                    *)
(***************************************************************************)
Init ==
    /\ GtInit
    /\ OeIdle
    /\ oeApiKey = TRUE
    /\ CpaIdle
    /\ mounted = "GradeTranscripts"

SpecGT == Init /\ [][GtNext]_vars

InitOE ==
    /\ GtInit
    /\ OeInit
    /\ CpaIdle
    /\ mounted = "OpportunityEvaluation"

SpecOE == InitOE /\ [][OeNext]_vars

InitPages ==
    /\ GtInit
    /\ OeInit
    /\ CpaIdle
    /\ mounted \in {"OpportunityEvaluation", "CustomerProblemAnalyst"}

SpecPages == InitPages /\ [][OeNext \/ CpaNext]_vars
(***************************************************************************)
(* Claims about GradeTranscripts (checked under SpecGT)                    *)
(***************************************************************************)
GtInFlightAgents == {c.agent : c \in BagToSet(gtInFlight)}

GtIndexOf(a) == CHOOSE i \in 1..Len(GT_AGENT_SEQUENCE) : GT_AGENT_SEQUENCE[i] = a

GtLaterAgents(a) == {b \in GtAgents : GtIndexOf(b) > GtIndexOf(a)}

\* C2: at most one agent has an external call in flight, whatever the interleaving
\* of Analyze, Stop/Reset, resolutions, rejections and timers.
C2_SingleFlight == Cardinality(GtInFlightAgents) <= 1

\* C2 (what the code does keep): a second call is in flight only after a reset
\* left the first one pending.
C2_SingleFlightUninterrupted == ~gtInterrupted => BagCardinality(gtInFlight) <= 1

C2_TwoAgentsInFlight == {"jtbd", "curse"} \subseteq GtInFlightAgents

\* C3: an agent is called at most MAX_RETRIES times per session; the catch branch
\* halts the sequence exactly when MAX_RETRIES calls were made, starting no call
\* and scheduling no retry, and the progression effect cannot start a later agent;
\* in a sequence that no reset interrupted, each of the first MAX_RETRIES - 1
\* failures schedules a retry, the halt follows the MAX_RETRIES-th consecutive
\* failure, nothing is left pending and no later agent was or is attempted.
C3_ExactlyMaxRetries ==
    /\ \A a \in GtAgents :
          gtAttempts[a] <= MAX_RETRIES /\ gtAgentStates[a].retryCount <= MAX_RETRIES
    /\ gtLast.ev = "exhausted" =>
          /\ gtAttempts[gtLast.agent] = MAX_RETRIES
          /\ ~gtIsSequenceRunning
          /\ ~gtLast.startedCall /\ ~gtLast.scheduledRetry
          /\ ~GtProgressionDue(GtState)
    /\ (~gtInterrupted /\ gtLast.ev = "rejected") =>
          /\ gtAttempts[gtLast.agent] < MAX_RETRIES
          /\ gtAgentStates[gtLast.agent].retryCount = gtAttempts[gtLast.agent]
          /\ gtLast.scheduledRetry
          /\ gtIsSequenceRunning
    /\ (~gtInterrupted /\ gtLast.ev = "exhausted") =>
          /\ gtAgentStates[gtLast.agent].retryCount = MAX_RETRIES
          /\ GtPending = 0
          /\ \A b \in GtLaterAgents(gtLast.agent) :
                gtAttempts[b] = 0 /\ gtAgentStates[b].results = "null"
    /\ (~gtInterrupted /\ ~gtIsSequenceRunning) => GtPending = 0

C3_Witness ==
    /\ gtLast.ev = "exhausted" /\ gtLast.agent = "curse"
    /\ ~gtInterrupted
    /\ gtAttempts["curse"] = MAX_RETRIES

\* C4: after handleStopAnalysis no agent call is started until Analyze is clicked.
C4_NoCallAfterStop == gtStopped => ~gtLast.startedCall

C4_CallStartedAfterStop ==
    gtStopped /\ gtLast.ev = "retry" /\ gtLast.startedCall

\* C10: when the key check of runAnalysisRef.current fails, or a call rejects with
\* an 'API key' message, the handler starts no call and schedules no retry, the
\* session is reset with isSequenceRunning and isAnalyzing false, and the
\* progression effect cannot start a later agent.
C10_ApiKeyFailureIsFatal ==
    gtLast.ev \in {"apiKeyCheckFailed", "apiKeyRejected"} =>
        /\ ~gtLast.startedCall /\ ~gtLast.scheduledRetry
        /\ ~gtIsSequenceRunning /\ ~gtIsAnalyzing
        /\ gtAgentStates = initialAgentStates
        /\ gtCurrentAnalysisIndex = 0
        /\ ~gtShowResult /\ ~gtAnalysisResult.set
        /\ ~GtProgressionDue(GtState)
        /\ \A t \in BagToSet(gtRetryTimers) : t.stale
        /\ \A c \in BagToSet(gtInFlight) : c.stale

C10_Witness ==
    /\ gtLast.ev = "apiKeyRejected" /\ gtLast.agent = "curse"
    /\ ~gtInterrupted

\* C11: when a call resolves after handleStopAnalysis (and before Analyze is
\* clicked again), its result is discarded: the results of its agent stay null,
\* its progress is not 100, and analysisResult and showResult are not set.
C11_LateResultDiscarded ==
    (gtStopped /\ gtLast.ev = "resolved") =>
        /\ gtAgentStates[gtLast.agent].results = "null"
        /\ gtAgentStates[gtLast.agent].progress # 100
        /\ ~gtAnalysisResult.set
        /\ ~gtShowResult

\* the jtbd call that was in flight when Stop was clicked has resolved, and its
\* result and progress 100 are in agentStates
C11_LateResultKept ==
    /\ gtStopped
    /\ gtLast.ev = "resolved" /\ gtLast.agent = "jtbd"
    /\ gtAgentStates["jtbd"].results = "stale"
    /\ gtAgentStates["jtbd"].progress = 100
    /\ gtAttempts["jtbd"] = 0


\* C27: the progression effect has started the call of the agent at the index
\* that follows agent p only when p has progress 100 and results that a call
\* issued in the current sequence produced.
C27_ProgressionAfterOwnResult ==
    (gtLast.ev = "progression" /\ gtLast.startedCall)
        => LET p == GtAgentAt(gtCurrentAnalysisIndex - 1)
           IN  /\ p # "none"
               /\ gtLast.agent = GtAgentAt(gtCurrentAnalysisIndex)
               /\ gtAgentStates[p].progress = 100
               /\ gtAgentStates[p].results = "fresh"

\* the jtbd call of an earlier, reset sequence resolved into the new sequence,
\* whose own jtbd call is still in flight, and the progression effect has
\* started curse
C27_ProgressionOnLeftOverResult ==
    /\ gtLast.ev = "progression" /\ gtLast.startedCall /\ gtLast.agent = "curse"
    /\ gtAgentStates["jtbd"].progress = 100
    /\ gtAgentStates["jtbd"].results = "stale"
    /\ \E c \in BagToSet(gtInFlight) : c.agent = "jtbd" /\ ~c.stale

\* C31: when the sequence halts because the retries of an agent are exhausted
\* (in the catch branch or at the retry guard), that agent is not marked as
\* analyzing and isAnalyzing and isSequenceRunning are both false.
C31_HaltLeavesAnalyzeUsable ==
    gtLast.ev \in {"exhausted", "retryGuard"} =>
        /\ ~gtAgentStates[gtLast.agent].isAnalyzing
        /\ ~gtIsAnalyzing
        /\ ~gtIsSequenceRunning

\* in a sequence that nothing interrupted the third call of jtbd has failed: the
\* catch branch has halted the sequence and jtbd is still marked as analyzing
C31_AgentStillAnalyzingAfterHalt ==
    /\ gtLast.ev = "exhausted" /\ gtLast.agent = "jtbd"
    /\ ~gtInterrupted
    /\ gtAgentStates["jtbd"].retryCount = MAX_RETRIES
    /\ ~gtIsAnalyzing /\ ~gtIsSequenceRunning
    /\ gtAgentStates["jtbd"].isAnalyzing

\* C37: every click of Analyze starts a fresh sequence: the call of the first
\* agent is issued, its retry count is 1 and the retry count of every other
\* agent is 0, whatever the sequence before it ended with.
C37_AnalyzeStartsFresh ==
    [][GtHandleAnalyze =>
          /\ gtLast'.startedCall /\ gtLast'.agent = GT_AGENT_SEQUENCE[1]
          /\ \E c \in BagToSet(gtInFlight') : c.agent = GT_AGENT_SEQUENCE[1] /\ ~c.stale
          /\ gtIsSequenceRunning'
          /\ \A a \in GtAgents :
                gtAgentStates'[a].retryCount = IF a = GT_AGENT_SEQUENCE[1] THEN 1 ELSE 0
      ]_vars

\* Analyze was clicked after jtbd had exhausted its retries: the retry guard read
\* the old count in stateRef.current and no call was issued; the session is
\* reset, isAnalyzing is true and nothing is pending
C37_AnalyzeHaltedByStaleCount ==
    /\ gtLast.ev = "retryGuard" /\ gtLast.agent = "jtbd" /\ ~gtLast.startedCall
    /\ gtAgentStates = initialAgentStates
    /\ gtIsAnalyzing /\ ~gtIsSequenceRunning
    /\ GtPending = 0
    /\ gtAttempts = GtZero

\* C39: when the call of the last agent of AGENT_SEQUENCE resolves in a sequence
\* that no reset interrupted, analysisResult holds for every agent a result that
\* a call of the current sequence produced, showResult is true, and
\* isSequenceRunning and isAnalyzing are false.
C39_FinalResultsComplete ==
    (/\ ~gtInterrupted
     /\ gtLast.ev = "resolved"
     /\ gtLast.agent = GT_AGENT_SEQUENCE[Len(GT_AGENT_SEQUENCE)])
        => /\ gtAnalysisResult.set
           /\ \A a \in GtAgents : gtAnalysisResult.v[a] = "fresh"
           /\ \A a \in GtAgents : gtAgentStates[a].results = "fresh"
           /\ gtShowResult
           /\ ~gtIsSequenceRunning
           /\ ~gtIsAnalyzing

\* the call of recommendations has resolved at the end of an uninterrupted
\* sequence in which curse needed a retry
C39_Witness ==
    /\ ~gtInterrupted
    /\ gtLast.ev = "resolved" /\ gtLast.agent = "recommendations"
    /\ gtAnalysisResult.set /\ gtShowResult
    /\ gtAgentStates["curse"].retryCount = 2
    /\ gtCurrentAnalysisIndex = Len(GT_AGENT_SEQUENCE) - 1
    /\ GtPending = 0
(***************************************************************************)
(* OpportunityEvaluation: properties                                       *)
(***************************************************************************)
\* C1: an agent is started (by startAnalysisSequence, runNextAgentInSequence or
\* handleRunSingleAgent) only if every one of its prerequisite agents has a
\* stored result at that moment.
C1_PrerequisitesBeforeStart ==
    oeLast.started # "none" => oeLast.prereqStored

\* the loop of startAnalysisSequence has started needsAnalysis while
\* localAnalysisResults holds no longContextChunking result
C1_NeedsStartedWithoutChunking ==
    /\ oeLast.ev = "seqNext"
    /\ oeLast.started = "needsAnalysis"
    /\ ~oeLast.prereqStored

\* C5: an invocation of runNextAgentInSequence that reads results for all of
\* needsAnalysis, demandAnalyst, opportunityQualification and finalReport starts
\* no agent, schedules none, and leaves isSequenceRunning false.
C5_AllDoneEndsSequence ==
    (oeLast.ev = "runNext" /\ OeVisibleAgents \subseteq oeLast.saw.completed)
        => /\ oeLast.started = "none"
           /\ oeLast.waitsFor = "none"
           /\ ~oeIsSequenceRunning

\* runNextAgentInSequence was called while the sequence was running and all four
\* visible agents had a result
C5_Witness ==
    /\ oeLast.ev = "runNext"
    /\ oeLast.saw.isSequenceRunning
    /\ OeVisibleAgents \subseteq oeLast.saw.completed
    /\ ~oeIsSequenceRunning

\* C6: reloading the page from what is mirrored in localStorage reproduces
\* localAnalysisResults, agentProgress, and the analyzingAgents and
\* finishedAgents sets; Set -> Array -> Set is the identity.
C6_ReloadReproducesSession ==
    LET r == OeMount(oeStorage, oeSaved)
    IN  /\ r.localAnalysisResults = oeLocalAnalysisResults
        /\ r.agentProgress = oeAgentProgress
        /\ SetElements(r.analyzingAgents) = SetElements(oeAnalyzingAgents)
        /\ SetElements(r.finishedAgents) = SetElements(oeFinishedAgents)
        /\ NewSet(ArrayFrom(oeAnalyzingAgents)) = oeAnalyzingAgents
        /\ NewSet(ArrayFrom(oeFinishedAgents)) = oeFinishedAgents

\* Reset Evaluation was clicked during the 300 ms wait that follows the
\* longContextChunking call: finishedAgents is empty, the stored array is not
C6_StaleFinishedAgentStored ==
    /\ ~SetHas(oeFinishedAgents, "longContextChunking")
    /\ SetHas(oeStorage.opportunityFinishedAgents, "longContextChunking")
    /\ oeLast.ev = "seqProgress"

\* C7: an invocation of runNextAgentInSequence that reads a running sequence and
\* no result for longContextChunking and for needsAnalysis runs
\* longContextChunking, and neither starts nor schedules needsAnalysis.
C7_ChunkingBeforeNeeds ==
    (/\ oeLast.ev = "runNext"
     /\ oeLast.saw.isSequenceRunning
     /\ "longContextChunking" \notin oeLast.saw.completed
     /\ "needsAnalysis" \notin oeLast.saw.completed)
        => /\ oeLast.started = "longContextChunking"
           /\ oeLast.waitsFor = "none"
           /\ \E p \in BagToSet(oeProcs) :
                p.kind = "pwa" /\ p.agent = "longContextChunking" /\ p.ret = "nextPrereq"

\* runNextAgentInSequence was called in a running sequence before any result
C7_Witness ==
    /\ oeLast.ev = "runNext"
    /\ oeLast.fresh
    /\ oeLast.saw.isSequenceRunning
    /\ oeLast.saw.completed = {}
    /\ oeLast.started = "longContextChunking"
    /\ SetHas(oeAnalyzingAgents, "longContextChunking")

\* C8: when the longContextChunking call of startAnalysisSequence fails, the
\* sequence halts: isSequenceRunning becomes false, the error is shown, and the
\* run starts no further agent and stores no further result.
C8_ChunkingFailureHalts ==
    /\ oeLast.ev = "chunkingRejects" => (~oeIsSequenceRunning /\ oeLast.toast # "none")
    /\ oeLast.failed => oeLast.started = "none"
    /\ (oeLast.failed /\ oeLast.ev = "seqStored") => oeLast.agent \notin OeVisibleAgents

\* after a failed longContextChunking call the same run has stored a result for
\* finalReport, the sequence still running
C8_SequenceWentOnAfterFailure ==
    /\ oeLast.failed
    /\ oeLast.ev = "seqStored"
    /\ oeLast.agent = "finalReport"
    /\ OeVisibleAgents \subseteq OeCompleted(oeLocalAnalysisResults)
    /\ oeIsSequenceRunning

\* C12: once stopAnalysisSequence has run, a run of startAnalysisSequence that
\* was suspended at the time starts no later agent and stores no further result.
C12_StopHaltsLoop ==
    \A p \in BagToSet(oeProcs) :
        (p.kind = "seq" /\ p.ret = "stopped") =>
            /\ ~(oeLast.ev = "seqNext" /\ oeLast.started = p.agent /\ p.pc = "p25")
            /\ ~(oeLast.ev = "seqStored" /\ oeLast.agent = p.agent /\ p.pc = "stored")

\* a run stopped during its longContextChunking call has gone on to store the
\* result of needsAnalysis, isSequenceRunning being false
C12_LoopWentOnAfterStop ==
    /\ ~oeIsSequenceRunning
    /\ oeLast.ev = "seqStored" /\ oeLast.agent = "needsAnalysis"
    /\ OeHas(oeLocalAnalysisResults, "needsAnalysis")
    /\ \E p \in BagToSet(oeProcs) :
          p.kind = "seq" /\ p.ret = "stopped" /\ p.agent = "needsAnalysis" /\ p.pc = "stored"

\* the place of an agent in the agentSequence of startAnalysisSequence and in
\* the registry
C13_Pos(a) == CHOOSE i \in 1..Len(OE_AGENT_SEQUENCE) : OE_AGENT_SEQUENCE[i] = a

C13_RegistryPos(a) == CHOOSE i \in 1..Len(agents) : agents[i] = a

\* C13: a run of startAnalysisSequence starts with longContextChunking; it
\* stores the result of the agent it is at, and only a run that has stored the
\* result of agent k starts an agent, which is agent k+1; the order is that of
\* the registry.
C13_InSequenceOrder ==
    [][/\ \A i, j \in 1..Len(OE_AGENT_SEQUENCE) :
            i < j => C13_RegistryPos(OE_AGENT_SEQUENCE[i]) < C13_RegistryPos(OE_AGENT_SEQUENCE[j])
       /\ oeLast'.ev = "analyze" => oeLast'.started = OE_AGENT_SEQUENCE[1]
       /\ oeLast'.ev = "seqStored" =>
            /\ \E p \in BagToSet(oeProcs) :
                  p.kind = "seq" /\ p.pc = "p100" /\ p.agent = oeLast'.agent
            /\ OeHas(oeLocalAnalysisResults', oeLast'.agent)
       /\ \A q \in BagToSet(oeProcs') :
            (/\ q.kind = "seq" /\ q.pc = "stored"
             /\ ~\E p \in BagToSet(oeProcs) :
                    p.kind = "seq" /\ p.pc = "stored" /\ p.agent = q.agent)
                => oeLast'.ev = "seqStored" /\ oeLast'.agent = q.agent
       /\ oeLast'.ev = "seqNext" =>
            \E p \in BagToSet(oeProcs) :
                /\ p.kind = "seq" /\ p.pc = "stored"
                /\ C13_Pos(oeLast'.started) = C13_Pos(p.agent) + 1
                /\ \E q \in BagToSet(oeProcs') :
                      q.kind = "seq" /\ q.pc = "p25" /\ q.agent = oeLast'.started
      ]_vars

\* the run has started finalReport, the results of the four agents before it
\* being stored
C13_Witness ==
    /\ oeLast.ev = "seqNext" /\ oeLast.started = "finalReport"
    /\ \A a \in OeAgents \ {"finalReport"} : OeHas(oeLocalAnalysisResults, a)
    /\ ~OeHas(oeLocalAnalysisResults, "finalReport")

\* C14: the status of an agent in agentProgress goes idle -> loading ->
\* {success, error}; within a session (until a reset, an upload or a new
\* Analyze) success is followed by nothing else, and idle only by loading.
C14_StatusStateMachine ==
    [][oeLast'.ev \notin {"clearData", "contentChange", "analyze", "reload"} =>
          \A a \in OeAgents :
            /\ oeAgentProgress[a].status = "success" =>
                  oeAgentProgress'[a].status = "success"
            /\ oeAgentProgress[a].status = "idle" =>
                  oeAgentProgress'[a].status \in {"idle", "loading"}
            /\ oeAgentProgress[a].status = "loading" =>
                  oeAgentProgress'[a].status \in {"loading", "success", "error"}
      ]_vars

\* handleRunSingleAgent('needsAnalysis') was called while needsAnalysis had its
\* result and status success: the status is loading again
C14_SuccessBackToLoading ==
    /\ oeLast.ev = "runSingle" /\ oeLast.started = "needsAnalysis"
    /\ OeHas(oeLocalAnalysisResults, "needsAnalysis")
    /\ SetHas(oeFinishedAgents, "needsAnalysis")
    /\ oeAgentProgress["needsAnalysis"] = OeProgress(0, "loading")

\* C15: right after handleContentChange has submitted a transcript, nothing of
\* the previous transcript's runs is left: localAnalysisResults and
\* agentProgress are empty, analyzingAgents is empty, and isDone is false for
\* every agent.
C15_UploadReplacesRuns ==
    oeLast.ev = "contentChange" =>
        /\ oeLocalAnalysisResults = OeNoResults
        /\ oeAgentProgress = OeNoProgress
        /\ Len(oeAnalyzingAgents) = 0
        /\ \A a \in OeAgents : ~isDone(OeState, a)

\* a transcript was uploaded after the longContextChunking call of the previous
\* transcript's sequence had returned: isDone('longContextChunking') is true
C15_FinishedAgentSurvivesUpload ==
    /\ oeLast.ev = "contentChange"
    /\ oeLocalAnalysisResults = OeNoResults
    /\ isDone(OeState, "longContextChunking")

\* localAnalysisResults, agentProgress, analyzingAgents and finishedAgents are
\* empty
C16_Empty ==
    /\ oeLocalAnalysisResults = OeNoResults
    /\ oeAgentProgress = OeNoProgress
    /\ Len(oeAnalyzingAgents) = 0
    /\ Len(oeFinishedAgents) = 0

\* C16: Reset Evaluation leaves localAnalysisResults, agentProgress,
\* analyzingAgents and finishedAgents empty, and the step that follows it, when
\* it is not a call of the user but the continuation of something that was in
\* flight at the reset, leaves them empty too.
C16_NothingWrittenBack ==
    [][/\ oeLast'.ev = "clearData" => C16_Empty'
       /\ (oeLast.ev = "clearData" /\ oeCalls' = oeCalls) => C16_Empty'
      ]_vars

\* Reset Evaluation was clicked while startAnalysisSequence was suspended in its
\* last progress wait; before the page reload the wait has ended and the result
\* of the old session is stored
C16_ResultWrittenAfterReset ==
    /\ \E p \in BagToSet(oeProcs) : p.kind = "reload"
    /\ oeTranscript = ""
    /\ oeLast.ev = "seqStored"
    /\ OeHas(oeLocalAnalysisResults, oeLast.agent)
    /\ SetHas(oeFinishedAgents, oeLast.agent)

\* C18: showResult is never 'longContextChunking'.
C18_ChunkingNeverShown ==
    oeShowResult # "longContextChunking"

\* after an upload and one click on Analyze the loop has stored the result of
\* needsAnalysis: the effects have left showResult at 'longContextChunking',
\* the safeguard effect having spent its one redirection
C18_ChunkingShownAfterNeeds ==
    /\ oeCalls = 2
    /\ oeLast.ev = "seqStored" /\ oeLast.agent = "needsAnalysis"
    /\ oeContextChunkingFixedRef
    /\ ~oeUserHasSelectedView
    /\ oeShowResult = "longContextChunking"

\* C19: every time showResult is 'longContextChunking' it is eventually
\* redirected to another value. Effects run with the handler or continuation
\* that caused the render, so whatever redirects must be armed or awaited:
\* once no timer is armed and no call is awaited (the user may stop there),
\* showResult is not 'longContextChunking'.
C19_ChunkingRedirectedAtRest ==
    oeProcs = EmptyBag => oeShowResult # "longContextChunking"

\* the sequence started by Analyze has run to its end and nothing is pending:
\* showResult is 'longContextChunking', the safeguard has been spent
C19_ChunkingShownAtRest ==
    /\ oeLast.ev = "seqEnd"
    /\ oeProcs = EmptyBag
    /\ oeContextChunkingFixedRef
    /\ oeShowResult = "longContextChunking"

\* C20: while userHasSelectedView is true, the completion of an agent (the
\* store of its result by the loop of startAnalysisSequence or by
\* processWithAgent, and the 50 ms timer processWithAgent arms at that point)
\* does not change showResult.
C20_CompletionKeepsSelectedView ==
    [][(/\ oeUserHasSelectedView
        /\ oeCalls' = oeCalls
        /\ oeLast'.ev \in {"chunkingResolves", "seqStored", "pwaComplete", "timer50"})
          => oeShowResult' = oeShowResult
      ]_vars

\* the user had clicked View Results of needsAnalysis while the sequence went
\* on; the loop has stored the result of demandAnalyst and shows it
C20_SequenceOverridesSelectedView ==
    /\ oeUserHasSelectedView
    /\ oeLast.ev = "seqStored" /\ oeLast.agent = "demandAnalyst"
    /\ oeShowResult = "demandAnalyst"
    /\ oeCalls = 3

\* the result the auto-selection prefers among the stored ones
C21_Preferred ==
    OeFirstWithResult(<<"opportunityQualification", "demandAnalyst", "needsAnalysis">>,
                      oeLocalAnalysisResults)

\* C21: when the full sequence has completed (every agent of the sequence has
\* a result, isSequenceRunning is false), the user has selected no view and
\* everything has settled (the last step was a continuation and no timer or
\* call is pending), showResult is opportunityQualification if it has a
\* result, otherwise demandAnalyst, otherwise needsAnalysis.
C21_FinalViewIsPreferred ==
    (/\ oeLast.ev \in {"seqEnd", "runNext", "pwaComplete", "timer50", "cleanup300", "cleanup100"}
     /\ oeProcs = EmptyBag
     /\ ~oeIsSequenceRunning
     /\ ~oeUserHasSelectedView
     /\ OeAgents \subseteq OeCompleted(oeLocalAnalysisResults))
        => oeShowResult = C21_Preferred

\* the sequence started by Analyze has ended with the five results stored and
\* no view selected by the user: showResult is not opportunityQualification
C21_FinalViewIsChunking ==
    /\ oeLast.ev = "seqEnd"
    /\ oeProcs = EmptyBag
    /\ ~oeIsSequenceRunning /\ ~oeUserHasSelectedView
    /\ OeAgents \subseteq OeCompleted(oeLocalAnalysisResults)
    /\ C21_Preferred = "opportunityQualification"
    /\ oeShowResult = "longContextChunking"

\* C22: analyzingAgents never holds more than one agent id.
C22_OneAnalyzingAgent ==
    Len(oeAnalyzingAgents) <= 1

\* handleRunSingleAgent('needsAnalysis') was called before the 300 ms cleanup
\* timer of the longContextChunking run had fired: both are in analyzingAgents
C22_TwoAnalyzingAgents ==
    /\ oeLast.ev = "runSingle" /\ oeLast.started = "needsAnalysis"
    /\ SetElements(oeAnalyzingAgents) = {"longContextChunking", "needsAnalysis"}

\* C23: in the registry the page has imported, the ids are unique and every
\* requiresPreviousAgent names an agent of the registry that is declared
\* earlier in the list (so the declared order is a topological order of the
\* dependency graph).
C23_RegistryIsTopological ==
    mounted = "OpportunityEvaluation" =>
        /\ \A i, j \in 1..Len(agents) : agents[i] = agents[j] => i = j
        /\ \A i \in 1..Len(agents) :
              requiresPreviousAgent[agents[i]] # "none" =>
                  \E j \in 1..(i - 1) : agents[j] = requiresPreviousAgent[agents[i]]

\* handleRunSingleAgent('finalReport') has looked finalReport up in the registry
\* and refused it for its prerequisite, which is declared before it
C23_Witness ==
    /\ oeLast.ev = "runSingle" /\ oeLast.agent = "finalReport"
    /\ oeLast.started = "none"
    /\ oeLast.toast = "requires"
    /\ C13_RegistryPos(requiresPreviousAgent["finalReport"]) < C13_RegistryPos("finalReport")

\* C24: an invocation of runNextAgentInSequence (a call or one of its self
\* re-invocations) never starts an agent that already has a stored result, so
\* the chain does not keep running the same agent from a stale snapshot.
C24_NoAgentRunTwice ==
    (oeLast.ev \in {"runNext", "runNextStarts"} /\ oeLast.started # "none")
        => ~OeHas(oeLocalAnalysisResults, oeLast.started)

\* runNextAgentInSequence has run longContextChunking as missing prerequisite
\* and re-invoked itself: the re-invocation reads the same snapshot (no result
\* for longContextChunking, sequence running) and has started it again
C24_ChunkingRunAgain ==
    /\ oeLast.ev = "runNext" /\ ~oeLast.fresh
    /\ oeLast.saw.isSequenceRunning
    /\ "longContextChunking" \notin oeLast.saw.completed
    /\ oeLast.started = "longContextChunking"
    /\ OeHas(oeLocalAnalysisResults, "longContextChunking")

\* C25: an invocation of runNextAgentInSequence that reads a running sequence
\* and results for every prerequisite AGENT_DEPENDENCIES declares for
\* finalReport, and none for finalReport, goes on to finalReport (it arms the
\* wait that precedes its run) and does not halt with the missing-prerequisite
\* error.
C25_FinalReportStarts ==
    (/\ oeLast.ev = "runNext"
     /\ oeLast.saw.isSequenceRunning
     /\ AGENT_DEPENDENCIES["finalReport"] \subseteq oeLast.saw.completed
     /\ "finalReport" \notin oeLast.saw.completed)
        => /\ oeLast.waitsFor = "finalReport"
           /\ oeLast.toast # "cannotRun"

\* runNextAgentInSequence was called with the results of needsAnalysis,
\* demandAnalyst and opportunityQualification stored: it has shown 'Cannot run
\* ... Missing required prerequisite analyses.' and ended the sequence
C25_FinalReportRefused ==
    /\ oeLast.ev = "runNext" /\ oeLast.agent = "finalReport"
    /\ oeLast.saw.isSequenceRunning
    /\ {"needsAnalysis", "demandAnalyst", "opportunityQualification"} \subseteq oeLast.saw.completed
    /\ oeLast.toast = "cannotRun"
    /\ oeLast.started = "none" /\ oeLast.waitsFor = "none"
    /\ ~oeIsSequenceRunning


\* C28: when the longContextChunking call of a run of startAnalysisSequence
\* succeeded, the needsAnalysis result that the run stores is not the one built
\* from the raw transcript by the 'missing chunking results' fallback.
C28_NeedsAnalysisConsumesChunking ==
    (oeLast.ev = "seqStored" /\ oeLast.agent = "needsAnalysis" /\ ~oeLast.failed)
        => oeLocalAnalysisResults["needsAnalysis"] # "dummyRaw"

\* the chunking call of the run succeeded and its result is in
\* localAnalysisResults, yet the run has stored the needsAnalysis result of the
\* fallback: the localAnalysisResults of its closure is the one of the click
C28_FallbackTakenAfterChunking ==
    /\ oeLast.ev = "seqStored" /\ oeLast.agent = "needsAnalysis" /\ ~oeLast.failed
    /\ OeHas(oeLocalAnalysisResults, "longContextChunking")
    /\ oeLocalAnalysisResults["needsAnalysis"] = "dummyRaw"
    /\ oeSaved["needsAnalysis"] = "dummyRaw"
    /\ \E p \in BagToSet(oeProcs) :
          /\ p.kind = "seq" /\ p.agent = "needsAnalysis" /\ p.pc = "stored"
          /\ ~OeHas(p.cl.localAnalysisResults, "longContextChunking")

\* C29: once processWithAgent has returned a result for an agent and no timer or
\* continuation is pending any more, the agent is not in analyzingAgents.
C29_AgentRemovedAfterSuccess ==
    (oeLast.ev \in {"pwaComplete", "timer50"} /\ oeProcs = EmptyBag)
        => ~SetHas(oeAnalyzingAgents, oeLast.agent)

\* processWithAgent has returned the result of the agent, nothing is pending, and
\* the agent is still in analyzingAgents: with a transcript loaded the Analyze
\* Transcript button stays disabled
C29_AgentStaysAnalyzing ==
    /\ oeLast.ev = "pwaComplete" /\ oeProcs = EmptyBag
    /\ oeLocalAnalysisResults[oeLast.agent] = "test"
    /\ oeAgentProgress[oeLast.agent].status = "success"
    /\ SetHas(oeAnalyzingAgents, oeLast.agent)
    /\ oeTranscript # ""

\* C32: an agent whose recorded progress is 100 has status 'success' and a
\* stored result.
C32_FullProgressMeansCompleted ==
    \A a \in OeAgents :
        oeAgentProgress[a].progress = 100 =>
            /\ oeAgentProgress[a].status = "success"
            /\ OeHas(oeLocalAnalysisResults, a)

\* the loop of startAnalysisSequence is in the last progress wait of
\* needsAnalysis: progress 100 with status 'loading' and no result stored
C32_FullProgressWhileLoading ==
    /\ oeLast.ev = "seqProgress" /\ oeLast.agent = "needsAnalysis"
    /\ oeAgentProgress["needsAnalysis"].progress = 100
    /\ oeAgentProgress["needsAnalysis"].status = "loading"
    /\ ~OeHas(oeLocalAnalysisResults, "needsAnalysis")
    /\ \E p \in BagToSet(oeProcs) :
          p.kind = "seq" /\ p.agent = "needsAnalysis" /\ p.pc = "p100"

\* C33: a step that is not an explicit reset (handleClearData, which calls
\* clearAllState) removes no agent from finishedAgents.
C33_FinishedAgentsOnlyGrows ==
    [][oeLast'.ev # "clearData" =>
          \A a \in OeAgents : SetHas(oeFinishedAgents, a) => SetHas(oeFinishedAgents', a)
      ]_vars

\* Analyze Transcript was clicked again after the chunking call of an earlier
\* sequence had returned: startAnalysisSequence has emptied the results and
\* longContextChunking is still in finishedAgents
C33_Witness ==
    /\ oeLast.ev = "analyze"
    /\ oeLocalAnalysisResults = OeNoResults
    /\ oeIsSequenceRunning
    /\ SetHas(oeFinishedAgents, "longContextChunking")

\* C34: handleViewResult leaves the result stored for every agent as it was.
C34_ViewResultKeepsResults ==
    [][oeLast'.ev = "viewResult" => oeLocalAnalysisResults' = oeLocalAnalysisResults]_vars

\* View Results was clicked for opportunityQualification, whose stored result
\* was the one processWithAgent had produced: it has been replaced by the copy
\* that the loop of startAnalysisSequence had left under
\* analysisResult_opportunityQualification
C34_ResultReplacedByOlderCopy ==
    /\ oeLast.ev = "viewResult" /\ oeLast.agent = "opportunityQualification"
    /\ oeLast.was = "test"
    /\ oeSaved["opportunityQualification"] = "dummy"
    /\ oeLocalAnalysisResults["opportunityQualification"] = "dummy"
    /\ oeShowResult = "opportunityQualification"

\* C36: after a page reload, when nothing is in flight, no agent is in
\* analyzingAgents and isSequenceRunning and isOptimizingTranscript are false.
C36_ReloadLeavesNothingAnalyzing ==
    (oeLast.ev = "reload" /\ oeProcs = EmptyBag) =>
        /\ Len(oeAnalyzingAgents) = 0
        /\ ~oeIsSequenceRunning
        /\ ~oeIsOptimizingTranscript

\* the page was reloaded while the loop of startAnalysisSequence was at
\* needsAnalysis: nothing is running, needsAnalysis is in analyzingAgents and
\* isSequenceRunning is true
C36_MarkedAnalyzingAfterReload ==
    /\ oeLast.ev = "reload" /\ oeProcs = EmptyBag
    /\ oeTranscript # ""
    /\ SetHas(oeAnalyzingAgents, "needsAnalysis")
    /\ oeIsSequenceRunning
    /\ ~OeHas(oeLocalAnalysisResults, "needsAnalysis")
(***************************************************************************)
(* OpportunityEvaluation.jsx, both components: properties                  *)
(***************************************************************************)
\* the next agent of the invocation of runNextAgentInSequence oeLast records
C9_NextAgent ==
    LET open == {i \in 1..Len(visibleAgentSequence) :
                    visibleAgentSequence[i] \notin oeLast.saw.completed}
    IN  IF open = {} THEN "none"
        ELSE visibleAgentSequence[CHOOSE i \in open : \A j \in open : i <= j]

\* C9: (a) an invocation of runNextAgentInSequence in a running sequence whose
\* next agent has a prerequisite without a result, that prerequisite itself
\* having a prerequisite without a result, starts and schedules nothing, shows
\* the error, and leaves isSequenceRunning false; (b) a direct call of
\* handleRunAgent that gets past its guards while the prerequisite of the agent
\* has no stored result does not start the agent, shows the error that names
\* the prerequisite, and schedules nothing.
C9_MissingPrerequisiteStops ==
    /\ (/\ oeLast.ev = "runNext"
        /\ oeLast.saw.isSequenceRunning
        /\ C9_NextAgent # "none"
        /\ requiresPreviousAgent[C9_NextAgent] # "none"
        /\ requiresPreviousAgent[C9_NextAgent] \notin oeLast.saw.completed
        /\ requiresPreviousAgent[requiresPreviousAgent[C9_NextAgent]] # "none"
        /\ requiresPreviousAgent[requiresPreviousAgent[C9_NextAgent]]
               \notin oeLast.saw.completed)
           => /\ oeLast.started = "none"
              /\ oeLast.waitsFor = "none"
              /\ oeLast.toast = "cannotRun"
              /\ ~oeIsSequenceRunning
    /\ (/\ cpaLast.ev = "runAgent"
        /\ cpaLast.direct
        /\ cpaLast.admitted
        /\ cpaLast.missing)
           => /\ cpaLast.did = "missingPrerequisite"
              /\ cpaLast.toast = "missingRequiredAnalysis"
              /\ cpaLast.toastNames = requiresPreviousAgent[cpaLast.agent]
              /\ cpaLast.scheduled = 0
              /\ ~SetHas(cpaAnalyzingAgents, cpaLast.agent)

\* handleRunAgent('jtbdGains') was called directly, with a transcript and an API
\* key, while there was no jtbd result
C9_Witness ==
    /\ cpaLast.ev = "runAgent"
    /\ cpaLast.direct
    /\ cpaLast.admitted
    /\ cpaLast.missing
    /\ cpaLast.agent = "jtbdGains"
    /\ cpaLast.toast = "missingRequiredAnalysis"
    /\ cpaLast.toastNames = "jtbd"

\* runNextAgentInSequence found finalReport next, with no result for
\* problemAwareness nor for painExtractor
C9_SequenceWitness ==
    /\ oeLast.ev = "runNext"
    /\ oeLast.saw.isSequenceRunning
    /\ C9_NextAgent = "finalReport"
    /\ oeLast.toast = "cannotRun"
    /\ ~oeIsSequenceRunning


\* C17: starting an analysis sequence (handleAnalyze in CustomerProblemAnalyst,
\* startAnalysisSequence in OpportunityEvaluation) leaves the transcript as the
\* user submitted it, and so does every later step of the orchestration (a step
\* that is not a call of the user nor a page reload).
C17_TranscriptImmutable ==
    [][/\ (cpaLast'.ev = "analyze" /\ cpaCalls' # cpaCalls) => cpaTranscript' = cpaTranscript
       /\ (oeLast'.ev = "analyze" /\ oeCalls' # oeCalls) => oeTranscript' = oeTranscript
       /\ cpaCalls' = cpaCalls => cpaTranscript' = cpaTranscript
       /\ (oeCalls' = oeCalls /\ oeLast'.ev # "reload") => oeTranscript' = oeTranscript
      ]_vars

\* handleAnalyze of CustomerProblemAnalyst got past its guards and has set
\* isSequenceRunning: the transcript is empty
C17_TranscriptClearedByAnalyze ==
    /\ cpaLast.ev = "analyze"
    /\ cpaLast.did # "none"
    /\ cpaIsSequenceRunning
    /\ cpaTranscript = ""

\* C26: when the result of finalReport, the last agent of AGENT_SEQUENCE, is
\* stored in a running sequence and no call or timer is left pending (so that
\* only the effects of that render can still act), isSequenceRunning is false
\* and hasAnalyzed is true.
C26_SequenceEndsAfterFinalReport ==
    [][(/\ cpaIsSequenceRunning
        /\ ~CpaHas(cpaLocalAnalysisResults, "finalReport")
        /\ CpaHas(cpaLocalAnalysisResults', "finalReport")
        /\ cpaProcs' = EmptyBag)
          => (~cpaIsSequenceRunning' /\ cpaHasAnalyzed')
      ]_vars

\* the chain has run up to finalReport and stored its result; nothing is
\* pending, currentAnalysisIndex is still the index of finalReport, the
\* sequence is still marked running and hasAnalyzed is false
C26_SequenceStillRunning ==
    /\ cpaLast.ev = "resolves"
    /\ CpaHas(cpaLocalAnalysisResults, "finalReport")
    /\ cpaProcs = EmptyBag
    /\ cpaCurrentAnalysisIndex = Len(CPA_AGENT_SEQUENCE) - 1
    /\ cpaIsSequenceRunning
    /\ ~cpaHasAnalyzed

\* C35: isDone(agentId) is true only when a result is stored for agentId, in
\* OpportunityEvaluation and in CustomerProblemAnalyst.
C35_IsDoneMeansStoredResult ==
    /\ mounted = "OpportunityEvaluation" =>
          \A a \in OeAgents : isDone(OeState, a) => OeHas(oeLocalAnalysisResults, a)
    /\ mounted = "CustomerProblemAnalyst" =>
          \A a \in CpaAgents : CpaIsDone(CpaState, a) => CpaHas(cpaLocalAnalysisResults, a)

\* CustomerProblemAnalyst: Reset was clicked while the call of jtbd was pending;
\* the call has resolved and handleAnalysisComplete has stored its result and
\* set the progress of its prerequisite chain to 100: isDone('longContextChunking')
\* is true although no result is stored for longContextChunking
C35_DoneWithoutResult ==
    /\ mounted = "CustomerProblemAnalyst"
    /\ cpaLast.ev = "resolves"
    /\ CpaHas(cpaLocalAnalysisResults, "jtbd")
    /\ ~CpaHas(cpaLocalAnalysisResults, "longContextChunking")
    /\ cpaAgentProgress["longContextChunking"] = 100
    /\ CpaIsDone(CpaState, "longContextChunking")

\* C38: when a call of agent a returns and handleAnalysisComplete(a, results)
\* runs, the result stored for every agent other than a is unchanged, and the
\* progress of every agent other than a and the agents of its prerequisite
\* chain is unchanged (a missing entry counting as 0), except that the agent
\* handleAnalysisComplete starts next may get the 5 or 0 handleRunAgent writes.
C38_CompleteKeepsOtherAgents ==
    [][\A p \in BagToSet(cpaProcs) :
          (CpaCallResolves(p) \/ CpaChunkComplete(p)) =>
              \A b \in CpaAgents \ {p.agent} :
                  /\ cpaLocalAnalysisResults'[b] = cpaLocalAnalysisResults[b]
                  /\ CpaChainProgress(CpaNoProgress, p.agent)[b] # 100 =>
                        \/ cpaAgentProgress'[b] = cpaAgentProgress[b]
                        \/ cpaAgentProgress'[b] <= 0 /\ cpaAgentProgress[b] <= 0
                        \/ /\ CpaIndexOf(p.agent) >= 1
                           /\ CpaIndexOf(b) = CpaIndexOf(p.agent) + 1
                           /\ cpaAgentProgress'[b] \in {0, 5}
      ]_vars

\* longContextChunking was run again after jtbd had completed and Reset was
\* clicked while it ran; its completion has written back the progress 100 of
\* jtbd from the cleared session, and no result is stored for jtbd
C38_ClearedProgressWrittenBack ==
    /\ mounted = "CustomerProblemAnalyst"
    /\ cpaLast.ev = "complete" /\ cpaLast.agent = "longContextChunking"
    /\ cpaTranscript = ""
    /\ CpaHas(cpaLocalAnalysisResults, "longContextChunking")
    /\ ~CpaHas(cpaLocalAnalysisResults, "jtbd")
    /\ cpaAgentProgress["jtbd"] = 100
    /\ cpaAgentProgress["longContextChunking"] = 100
====
